---- MODULE Spec2Model ----
(***************************************************************************)
(* Model of the token lifecycle pipeline of pythonsnipev2.                 *)
(*                                                                         *)
(*   Spec        PaperTradingBot (src/main_paper.py): the detection loop,  *)
(*               the per-position monitor tasks, the signal handler and    *)
(*               the shutdown path, scheduled as asyncio schedules them.   *)
(*   FairSpec    Spec with every ready task run and every due timer fired. *)
(*   SpecEngine  ExecutionEngine (src/modules/execution_engine.py): the    *)
(*               buy/sell gateway and the Jito tip rotation.               *)
(*   SpecSafety  SafetyFilters (src/modules/safety_filters.py): one call   *)
(*               of analyze_token on a token snapshot, with the answers of *)
(*               the two external services as inputs.                      *)
(*   SpecTrainer ModelTrainer (src/src/ai/model_trainer.py): record_trade  *)
(*               and get_recommended_thresholds calls on the two persisted *)
(*               files, with file reads and writes that may fail.          *)
(*   SpecAdvisor LEPPredictor (src/ai/lep_predictor.py) and CascadeSentinel *)
(*               (src/src/ai/cascade_sentinel.py): one call of each on a   *)
(*               token snapshot, enabled or disabled by configuration.     *)
(*   SpecMonitor SolanaMonitor (src/modules/monitor_solana.py) and          *)
(*               BSCMonitor (src/src/modules/monitor_bsc.py): the polls of  *)
(*               the two detection monitors and their callbacks.           *)
(*   FairSpecMonitor  SpecMonitor with the BSC polling loop kept running.  *)
(*   SpecAlerts  TelegramAlerts (src/modules/telegram_alerts.py): the six  *)
(*               alert operations, with deliveries that may fail.          *)
(*                                                                         *)
(* Prices are integers in units of 1/100 of the entry price, amounts are   *)
(* integers in units of 1/100 of the investment amount, so that the        *)
(* percentages the code computes in floating point are exact integers or   *)
(* are compared exactly by cross-multiplication.                           *)
(***************************************************************************)
EXTENDS Integers, Sequences, FiniteSets

VARIABLES
    \* ---- PaperTradingBot ----
    config,             \* self.config (TradingConfig), fixed after construction
    running,            \* self.running
    paper_balance,      \* self.paper_balance
    current_position,   \* self.current_position: None or a reference into positions
    positions,          \* the position dicts ever created (the heap), by reference
    trades_history,     \* self.trades_history
    wins,               \* self.wins
    losses,             \* self.losses
    main_pc,            \* where start() is
    det_pc,             \* where _monitor_solana() is
    mon,                \* the tasks created by asyncio.create_task(_monitor_position())
    detections,         \* number of wake-ups of the detection loop so far (the clock)
    last_poll,          \* observation of the latest monitor poll
    \* ---- ExecutionEngine ----
    network,            \* self.network
    use_jito,           \* self.use_jito
    libs,               \* the chain libraries imported (AsyncClient / Web3 not None)
    wallet_loaded,      \* the wallet returns a keypair / account (not None)
    jito_tip_account_index, \* self.jito_tip_account_index
    tip_log,            \* the tip accounts returned by _get_jito_tip_account, in order
    calls,              \* number of buy_token / sell_token calls so far
    last_call,          \* observation of the latest gateway call
    \* ---- SafetyFilters ----
    filters,            \* the thresholds SafetyFilters.__init__ copies from the config
    token_data,         \* the snapshot under analysis and what the external services answer
    report,             \* what analyze_token returned (NoReport before the call)
    sf_pc,              \* "idle" before the call of analyze_token, "done" after
    \* ---- ModelTrainer ----
    performance_file,   \* data/models/performance_history.json
    patterns_file,      \* data/models/winning_patterns.json
    utcnow,             \* the clock: the timestamp of the latest trade record
    records,            \* number of record_trade calls so far
    io_faults,          \* number of failed file operations so far
    last_record,        \* observation of the latest record_trade call
    last_thresholds,    \* what get_recommended_thresholds returned, if it was the latest call
    \* ---- LEPPredictor and CascadeSentinel ----
    lep_enabled,        \* LEPPredictor.enabled
    cascade_enabled,    \* CascadeSentinel.enabled
    snapshot,           \* the token_data handed to both advisors
    historical_data,    \* the liquidity_usd of the historical samples, <<>> for None
    lep_result,         \* what predict_pump_timing returned, with what it computed and logged
    cascade_result,     \* what predict_virality returned, with what it computed and logged
    lep_pc,             \* "idle" before the call of predict_pump_timing, "done" after
    cascade_pc,         \* "idle" before the call of predict_virality, "done" after
    \* ---- SolanaMonitor and BSCMonitor ----
    seen_tokens,        \* SolanaMonitor.seen_tokens
    sol_detected,       \* calls of on_token_detected so far, per transaction signature
    sol_polls,          \* number of _check_raydium_pools calls so far
    sol_overlap,        \* the signatures of the latest answer that had been seen before
    seen_pairs,         \* BSCMonitor.seen_pairs
    last_block,         \* BSCMonitor.last_block
    bsc_detected,       \* calls of on_token_detected so far, per pair address
    last_scan,          \* observation of the latest pass of the _monitor_blocks loop
    scanned,            \* per block, the number of ranges handed to _check_new_pairs that hold it
    \* ---- TelegramAlerts ----
    tg_config,          \* the telegram settings of the TradingConfig
    tg_env,             \* TELEGRAM_BOT_TOKEN and TELEGRAM_CHAT_ID of the environment
    tg_enabled,         \* TelegramAlerts.enabled
    requests,           \* number of POSTs to the Bot API so far
    alerts,             \* number of alert operations called so far
    last_alert          \* observation of the latest alert operation

botVars == <<config, running, paper_balance, current_position, positions,
             trades_history, wins, losses, main_pc, det_pc, mon, detections,
             last_poll>>
engVars == <<network, use_jito, libs, wallet_loaded, jito_tip_account_index,
             tip_log, calls, last_call>>
sfVars == <<filters, token_data, report, sf_pc>>
mtVars == <<performance_file, patterns_file, utcnow, records, io_faults,
            last_record, last_thresholds>>
advVars == <<lep_enabled, cascade_enabled, snapshot, historical_data,
             lep_result, cascade_result, lep_pc, cascade_pc>>
dmVars == <<seen_tokens, sol_detected, sol_polls, sol_overlap, seen_pairs, last_block,
            bsc_detected, last_scan, scanned>>
tgVars == <<tg_config, tg_env, tg_enabled, requests, alerts, last_alert>>
vars == <<botVars, engVars, sfVars, mtVars, advVars, dmVars, tgVars>>

\* what an action of one component leaves alone in the others
notBotVars == <<engVars, sfVars, mtVars, advVars, dmVars, tgVars>>
notEngVars == <<botVars, sfVars, mtVars, advVars, dmVars, tgVars>>
notSfVars == <<botVars, engVars, mtVars, advVars, dmVars, tgVars>>
notMtVars == <<botVars, engVars, sfVars, advVars, dmVars, tgVars>>
notAdvVars == <<botVars, engVars, sfVars, mtVars, dmVars, tgVars>>
notDmVars == <<botVars, engVars, sfVars, mtVars, advVars, tgVars>>
notTgVars == <<botVars, engVars, sfVars, mtVars, advVars, dmVars>>

----------------------------------------------------------------------------
(* Bounds *)

\* wake-ups of the detection loop in one run
MaxDetections == 3
\* gateway calls in one run
MaxCalls == 10
\* record_trade calls per run
MaxRecords == 3
\* failed file operations per run
MaxFaults == 1
\* _check_raydium_pools calls per run
MaxPolls == 2
\* blocks the chain grows by after the start of the BSC monitor
MaxBlock == 3
\* alert operations called per run
MaxAlerts == 2

----------------------------------------------------------------------------
(* PaperTradingBot: constants of the demo feed *)

None == 0

\* token_data['address'] of the demo token
DemoToken == "DemoToken123..."

\* entry_price = 0.00000123, in units of 1/100 of itself
EntryPrice == 100

\* config.get_investment_amount(), in units of 1/100 of itself
InvestmentAmount == 100

\* the demo token_data of _monitor_solana
DemoLiquidity == 10000
DemoHolders == 75
DemoTopHolderPercent == 45
DemoAgeMinutes == 2

\* price_change = random.uniform(-0.05, 0.15), in percent, on a grid
PriceChanges == {-5, 0, 2, 10, 15}

\* The exit strategies explored (the strategy section of config_paper.yaml):
\* the defaults, each exit on its own, trailing stop disabled, and thresholds
\* at which two or three exit conditions qualify at the same poll.
Strategies ==
    { [take_profit |-> 300, stop_loss |-> 20, trailing_stop |-> TRUE,
       trailing_distance |-> 20],
      [take_profit |-> 10, stop_loss |-> 4, trailing_stop |-> TRUE,
       trailing_distance |-> 10],
      [take_profit |-> 10, stop_loss |-> 4, trailing_stop |-> FALSE,
       trailing_distance |-> 10],
      [take_profit |-> 300, stop_loss |-> 4, trailing_stop |-> TRUE,
       trailing_distance |-> 10],
      [take_profit |-> 10, stop_loss |-> 20, trailing_stop |-> TRUE,
       trailing_distance |-> 0],
      [take_profit |-> 0, stop_loss |-> 0, trailing_stop |-> TRUE,
       trailing_distance |-> 0],
      [take_profit |-> 0, stop_loss |-> 0, trailing_stop |-> FALSE,
       trailing_distance |-> 20] }

\* The configurations explored (config_paper.yaml is user-editable).
Configs ==
    { [ initial_balance |-> b,
        take_profit |-> s.take_profit,
        stop_loss |-> s.stop_loss,
        trailing_stop |-> s.trailing_stop,
        trailing_distance |-> s.trailing_distance,
        min_liquidity_usd |-> l,
        min_holders |-> 50,
        max_top_holder_percent |-> 60,
        max_token_age_minutes |-> 5 ] :
      b \in {50, 100, 250}, s \in Strategies, l \in {5000, 20000} }

----------------------------------------------------------------------------
(* PaperTradingBot: pure computations *)

\* current_price = entry_price * (1 + price_change)
CurrentPrice(entry_price, change) == (entry_price * (100 + change)) \div 100

\* pnl_percent = ((current_price - entry_price) / entry_price) * 100
PnlPercent(current_price, entry_price) ==
    ((current_price - entry_price) * 100) \div entry_price

\* a monitor that stores the latest price as the peak
NewPeak_TracksCurrent(peak_price, current_price) == current_price

\* if current_price > position['peak_price']: position['peak_price'] = current_price
NewPeak(peak_price, current_price) ==
    IF current_price > peak_price THEN current_price ELSE peak_price

\* a trailing stop that needs the drop to exceed the distance
DropQualifies_Strict(peak_price, current_price, trailing_distance) ==
    (peak_price - current_price) * 100 > trailing_distance * peak_price

\* drop_from_peak >= trailing_distance, with
\* drop_from_peak = ((peak_price - current_price) / peak_price) * 100
DropQualifies(peak_price, current_price, trailing_distance) ==
    (peak_price - current_price) * 100 >= trailing_distance * peak_price

\* an exit chain that tests the stop loss before the take profit
ExitReason_StopLossFirst(cfg, pnl_percent, peak_price, current_price) ==
    IF pnl_percent <= -cfg.stop_loss THEN "Stop Loss"
    ELSE IF pnl_percent >= cfg.take_profit THEN "Take Profit"
    ELSE IF cfg.trailing_stop
            /\ DropQualifies(peak_price, current_price, cfg.trailing_distance)
         THEN "Trailing Stop"
    ELSE "None"

\* the if / elif / elif chain choosing exit_reason
ExitReason(cfg, pnl_percent, peak_price, current_price) ==
    IF pnl_percent >= cfg.take_profit THEN "Take Profit"
    ELSE IF pnl_percent <= -cfg.stop_loss THEN "Stop Loss"
    ELSE IF cfg.trailing_stop
            /\ DropQualifies(peak_price, current_price, cfg.trailing_distance)
         THEN "Trailing Stop"
    ELSE "None"

\* a return that counts the profit only
SellValue_ProfitOnly(amount, pnl_percent) == (amount * pnl_percent) \div 100

\* sell_value = amount * (1 + pnl_percent / 100)
SellValue(amount, pnl_percent) == (amount * (100 + pnl_percent)) \div 100

\* _check_safety on the demo token
CheckSafety(cfg) ==
    /\ ~(DemoLiquidity < cfg.min_liquidity_usd)
    /\ ~(DemoHolders < cfg.min_holders)
    /\ ~(DemoTopHolderPercent > cfg.max_top_holder_percent)
    /\ ~(DemoAgeMinutes > cfg.max_token_age_minutes)

\* self.current_position == position: None, or dicts compared by value
PositionEq(heap, cur, pos) ==
    IF cur = None \/ pos = None THEN cur = pos
    ELSE heap[cur] = heap[pos]

\* a loop condition that does not look at the shutdown flag
LoopCond_IgnoresRunning(heap, pos) == PositionEq(heap, current_position, pos)

\* while self.running and self.current_position == position
LoopCond(heap, pos) == running /\ PositionEq(heap, current_position, pos)

----------------------------------------------------------------------------
(* Scheduling: a task runs from one await to the next; a task made ready   *)
(* by create_task runs before any sleeping task wakes.                     *)

DetectionSuspended == det_pc \notin {"loop", "exit"}

NoReadyTask == \A i \in DOMAIN mon : mon[i].pc # "created"

TimerMayFire == main_pc = "running" /\ DetectionSuspended /\ NoReadyTask

----------------------------------------------------------------------------
(* SafetyFilters: thresholds, snapshots and the five layers *)

\* results['total_checks']
TotalChecks == 5

\* simulated_score, the score _check_rugcheck uses when the service gave none
SimulatedScore == 7

\* the "Rough SOL price" _check_liquidity converts native liquidity with
SolPriceUsd == 150

\* the values _check_holders simulates for a count or a percentage of 0
SimulatedHolders == 75
SimulatedTopHolderPct == 45

\* the age _check_age reports when it assumes the token fresh
AssumedAgeMinutes == 2

\* the thresholds of a default TradingConfig
DefaultFilters ==
    [ min_safety_score |-> 70, min_rugcheck |-> 7, min_liquidity |-> 5000,
      min_holders |-> 50, max_top_holder_pct |-> 60, max_age_minutes |-> 5,
      check_honeypot |-> TRUE ]

\* the configurations explored: the safety threshold below and at the
\* default, the minimum risk score at and above SimulatedScore, honeypot
\* checking on and off
FilterConfigs ==
    { [DefaultFilters EXCEPT !.min_safety_score = t, !.min_rugcheck = r,
                             !.check_honeypot = h] :
        t \in {60, 70}, r \in {7, 8}, h \in BOOLEAN }

\* token_data['source']
Sources == {"solana", "raydium", "bsc", "pancakeswap"}

\* what the HTTP GET of a layer does: status 200 with a JSON body, another
\* status, asyncio.TimeoutError, or any other exception (connection error,
\* undecodable body, ill-typed field)
RugcheckAnswers ==
    { [status |-> "200", score |-> s] : s \in {0, 6, 7, 8, 10} }
        \cup { [status |-> st, score |-> 0] : st \in {"non200", "timeout", "error"} }

HoneypotAnswers ==
    { [status |-> "200", isHoneypot |-> b] : b \in BOOLEAN }
        \cup { [status |-> st, isHoneypot |-> FALSE] :
                 st \in {"non200", "timeout", "error"} }

\* the forms token_data['timestamp'] takes: a naive or an aware datetime, an
\* ISO string without suffix, with 'Z' or with a UTC offset, a string that
\* is no ISO date, or no timestamp at all
TimestampKinds ==
    {"datetime", "datetime_aware", "iso", "iso_z", "iso_offset",
     "malformed", "missing"}

\* the test token of the module's example, with both services answering
\* favourably; age_seconds is the true age of the token at the call
DemoSnapshot ==
    [ source |-> "raydium",
      rugcheck |-> [status |-> "200", score |-> 10],
      has_liquidity_usd |-> TRUE, liquidity_usd |-> 8000,
      has_liquidity |-> FALSE, liquidity |-> 0,
      has_holders |-> TRUE, holders |-> 75,
      has_top_holder_percent |-> TRUE, top_holder_percent |-> 45,
      ill_typed |-> "none",
      ts_kind |-> "datetime", age_seconds |-> 0,
      honeypot |-> [status |-> "200", isHoneypot |-> FALSE] ]

\* snapshots that differ from the demo snapshot in the inputs of one layer
RugcheckCases ==
    { [DemoSnapshot EXCEPT !.source = src, !.rugcheck = a] :
        src \in Sources, a \in RugcheckAnswers }

LiquidityCases ==
    { [DemoSnapshot EXCEPT !.has_liquidity_usd = hu,
                           !.liquidity_usd = IF hu THEN u ELSE 0,
                           !.has_liquidity = hl,
                           !.liquidity = IF hl THEN l ELSE 0] :
        hu \in BOOLEAN, u \in {0, 4999, 5000}, hl \in BOOLEAN, l \in {0, 33, 34} }
        \cup { [DemoSnapshot EXCEPT !.ill_typed = "liquidity"] }

HolderCases ==
    { [DemoSnapshot EXCEPT !.has_holders = hh,
                           !.holders = IF hh THEN h ELSE 0,
                           !.has_top_holder_percent = ht,
                           !.top_holder_percent = IF ht THEN t ELSE 0] :
        hh \in BOOLEAN, h \in {0, 49, 50, 75}, ht \in BOOLEAN, t \in {0, 45, 60, 61} }
        \cup { [DemoSnapshot EXCEPT !.ill_typed = "holders"] }

AgeCases ==
    { [DemoSnapshot EXCEPT !.ts_kind = k,
                           !.age_seconds = IF k \in {"malformed", "missing"}
                                           THEN 0 ELSE a] :
        k \in TimestampKinds, a \in {-90, 0, 299, 300, 301, 6000} }

ContractCases ==
    { [DemoSnapshot EXCEPT !.source = src, !.honeypot = a] :
        src \in Sources, a \in HoneypotAnswers }

\* snapshots in which every layer is given a favourable or an unfavourable
\* input, in every combination
MixedCases ==
    { [DemoSnapshot EXCEPT !.source = src,
                           !.rugcheck = [status |-> "200", score |-> s],
                           !.liquidity_usd = u, !.holders = h,
                           !.age_seconds = a,
                           !.honeypot = [status |-> "200", isHoneypot |-> hp]] :
        src \in {"raydium", "pancakeswap"}, s \in {0, 10}, u \in {0, 8000},
        h \in {10, 75}, a \in {0, 6000}, hp \in BOOLEAN }

Snapshots ==
    RugcheckCases \cup LiquidityCases \cup HolderCases \cup AgeCases
        \cup ContractCases \cup MixedCases

\* _check_rugcheck: the service is asked for solana/raydium tokens only; a
\* 200 answer is judged against min_rugcheck, a timeout or another status
\* falls through to the simulated score, any other exception is caught by
\* the outer handler
CheckRugcheck(self, token) ==
    LET simulated == [ passed |-> SimulatedScore >= self.min_rugcheck,
                       score |-> SimulatedScore, reason |-> "None" ]
        answer == token.rugcheck
    IN  IF token.source \in {"solana", "raydium"}
        THEN CASE answer.status = "200" ->
                    [ passed |-> answer.score >= self.min_rugcheck,
                      score |-> answer.score,
                      reason |-> IF answer.score < self.min_rugcheck
                                 THEN "RugCheck score too low" ELSE "None" ]
               [] answer.status = "error" ->
                    [ passed |-> TRUE, score |-> SimulatedScore,
                      reason |-> "None" ]
               [] OTHER -> simulated
        ELSE simulated

\* liquidity_usd as _check_liquidity computes it
LiquidityUsd(token) ==
    IF token.has_liquidity /\ ~token.has_liquidity_usd
    THEN token.liquidity * SolPriceUsd
    ELSE IF token.has_liquidity_usd THEN token.liquidity_usd ELSE 0

\* an exception that leaves a layer instead of a sub-result
Raised == [raised |-> TRUE]

Escaped(result) == "passed" \notin DOMAIN result

CheckLiquidity_StrictFloor(self, token) ==
    IF token.ill_typed = "liquidity"
    THEN [ passed |-> FALSE, amount |-> 0, reason |-> "Liquidity check failed" ]
    ELSE LET liquidity_usd == LiquidityUsd(token)
         IN  [ passed |-> liquidity_usd > self.min_liquidity,
               amount |-> liquidity_usd,
               reason |-> IF liquidity_usd < self.min_liquidity
                          THEN "Low liquidity" ELSE "None" ]

\* _check_liquidity; a figure that is no number makes the comparison raise,
\* which the handler turns into a failed layer
CheckLiquidity(self, token) ==
    IF token.ill_typed = "liquidity"
    THEN [ passed |-> FALSE, amount |-> 0, reason |-> "Liquidity check failed" ]
    ELSE LET liquidity_usd == LiquidityUsd(token)
         IN  [ passed |-> liquidity_usd >= self.min_liquidity,
               amount |-> liquidity_usd,
               reason |-> IF liquidity_usd < self.min_liquidity
                          THEN "Low liquidity" ELSE "None" ]

\* '; '.join(reasons) of _check_holders, None for no reason
JoinHolderReasons(few, concentrated) ==
    IF few /\ concentrated THEN "Too few holders; High concentration"
    ELSE IF few THEN "Too few holders"
    ELSE IF concentrated THEN "High concentration"
    ELSE "None"

CheckHolders_NoHandler(self, token) ==
    IF token.ill_typed = "holders"
    THEN Raised
    ELSE LET got_count == IF token.has_holders THEN token.holders ELSE 0
             got_pct == IF token.has_top_holder_percent
                        THEN token.top_holder_percent ELSE 0
             holders_count == IF got_count = 0 THEN SimulatedHolders ELSE got_count
             top_holder_pct == IF got_pct = 0 THEN SimulatedTopHolderPct ELSE got_pct
             few == holders_count < self.min_holders
             concentrated == top_holder_pct > self.max_top_holder_pct
         IN  [ passed |-> ~few /\ ~concentrated,
               count |-> holders_count,
               top_holder_pct |-> top_holder_pct,
               reason |-> JoinHolderReasons(few, concentrated) ]

\* _check_holders: a count or a percentage of 0 (given or defaulted) is
\* replaced by the simulated value before the comparison
CheckHolders(self, token) ==
    IF token.ill_typed = "holders"
    THEN [ passed |-> FALSE, count |-> 0, top_holder_pct |-> 0,
           reason |-> "Holder check failed" ]
    ELSE LET got_count == IF token.has_holders THEN token.holders ELSE 0
             got_pct == IF token.has_top_holder_percent
                        THEN token.top_holder_percent ELSE 0
             holders_count == IF got_count = 0 THEN SimulatedHolders ELSE got_count
             top_holder_pct == IF got_pct = 0 THEN SimulatedTopHolderPct ELSE got_pct
             few == holders_count < self.min_holders
             concentrated == top_holder_pct > self.max_top_holder_pct
         IN  [ passed |-> ~few /\ ~concentrated,
               count |-> holders_count,
               top_holder_pct |-> top_holder_pct,
               reason |-> JoinHolderReasons(few, concentrated) ]

\* what _check_age makes of the timestamp before subtracting: fromisoformat
\* of the string with 'Z' replaced by '+00:00' (aware when the string has a
\* suffix), utcnow() when there is no datetime, or a ValueError
ParseTimestamp(kind) ==
    CASE kind = "datetime"       -> [raised |-> FALSE, aware |-> FALSE, now |-> FALSE]
      [] kind = "datetime_aware" -> [raised |-> FALSE, aware |-> TRUE, now |-> FALSE]
      [] kind = "iso"            -> [raised |-> FALSE, aware |-> FALSE, now |-> FALSE]
      [] kind = "iso_z"          -> [raised |-> FALSE, aware |-> TRUE, now |-> FALSE]
      [] kind = "iso_offset"     -> [raised |-> FALSE, aware |-> TRUE, now |-> FALSE]
      [] kind = "malformed"      -> [raised |-> TRUE, aware |-> FALSE, now |-> FALSE]
      [] OTHER                   -> [raised |-> FALSE, aware |-> FALSE, now |-> TRUE]

\* int(x) of seconds / 60: truncation towards zero
TruncMinutes(seconds) ==
    IF seconds >= 0 THEN seconds \div 60 ELSE -((-seconds) \div 60)

\* _check_age: datetime.utcnow() - timestamp raises TypeError for an aware
\* timestamp; every exception is answered with "assume fresh"
CheckAge(self, token) ==
    LET ts == ParseTimestamp(token.ts_kind)
    IN  IF ts.raised \/ ts.aware
        THEN [ passed |-> TRUE, age_minutes |-> AssumedAgeMinutes,
               reason |-> "None" ]
        ELSE LET age_seconds == IF ts.now THEN 0 ELSE token.age_seconds
                 old == age_seconds > self.max_age_minutes * 60
             IN  [ passed |-> ~old,
                   age_minutes |-> TruncMinutes(age_seconds),
                   reason |-> IF old THEN "Token too old" ELSE "None" ]

CheckContract_FailClosed(self, token) ==
    IF ~self.check_honeypot
    THEN [ passed |-> TRUE, reason |-> "None" ]
    ELSE IF token.source \in {"bsc", "pancakeswap"}
         THEN IF token.honeypot.status = "200"
              THEN [ passed |-> ~token.honeypot.isHoneypot,
                     reason |-> IF token.honeypot.isHoneypot
                                THEN "HONEYPOT DETECTED" ELSE "None" ]
              ELSE [ passed |-> FALSE, reason |-> "None" ]
         ELSE [ passed |-> TRUE, reason |-> "None" ]

\* _check_contract: only a 200 answer of the honeypot service for a
\* bsc/pancakeswap token can fail the layer
CheckContract(self, token) ==
    IF ~self.check_honeypot
    THEN [ passed |-> TRUE, reason |-> "None" ]
    ELSE IF token.source \in {"bsc", "pancakeswap"} /\ token.honeypot.status = "200"
         THEN [ passed |-> ~token.honeypot.isHoneypot,
                reason |-> IF token.honeypot.isHoneypot
                           THEN "HONEYPOT DETECTED" ELSE "None" ]
         ELSE [ passed |-> TRUE, reason |-> "None" ]

\* the layers in the order analyze_token runs them, under their details keys
LayerNames == <<"rugcheck", "liquidity", "holders", "age", "contract">>

LayerResult(self, token, name) ==
    CASE name = "rugcheck"  -> CheckRugcheck(self, token)
      [] name = "liquidity" -> CheckLiquidity(self, token)
      [] name = "holders"   -> CheckHolders(self, token)
      [] name = "age"       -> CheckAge(self, token)
      [] OTHER              -> CheckContract(self, token)

SafetyScore_FloorBeforeScale(passed_checks, total_checks) ==
    (passed_checks \div total_checks) * 100

\* int((passed_checks / total_checks) * 100)
SafetyScore(passed_checks, total_checks) ==
    (passed_checks * 100) \div total_checks

\* the reasons of the failed layers among the first n, in layer order
RECURSIVE FailedReasons(_, _)
FailedReasons(details, n) ==
    IF n = 0 THEN <<>>
    ELSE LET r == details[LayerNames[n]]
         IN  IF r.passed THEN FailedReasons(details, n - 1)
             ELSE Append(FailedReasons(details, n - 1), r.reason)

\* a report that lists only the reason of the first failed layer
AnalyzeTokenResult_FirstReasonOnly(self, token) ==
    LET details == [ name \in {LayerNames[k] : k \in DOMAIN LayerNames} |->
                        LayerResult(self, token, name) ]
    IN  IF \E name \in DOMAIN details : Escaped(details[name])
        THEN Raised
        ELSE LET passed_checks ==
                    Cardinality({k \in DOMAIN LayerNames :
                                    details[LayerNames[k]].passed})
                 score == SafetyScore(passed_checks, TotalChecks)
                 reasons == FailedReasons(details, Len(LayerNames))
             IN  [ safe |-> score >= self.min_safety_score,
                   score |-> score,
                   passed_checks |-> passed_checks,
                   total_checks |-> TotalChecks,
                   reasons |-> SubSeq(reasons, 1, IF reasons = <<>> THEN 0 ELSE 1),
                   details |-> details ]

\* the dict analyze_token returns; analyze_token has no handler of its own,
\* so an exception leaving a layer would leave analyze_token as well
AnalyzeTokenResult(self, token) ==
    LET details == [ name \in {LayerNames[k] : k \in DOMAIN LayerNames} |->
                        LayerResult(self, token, name) ]
    IN  IF \E name \in DOMAIN details : Escaped(details[name])
        THEN Raised
        ELSE LET passed_checks ==
                    Cardinality({k \in DOMAIN LayerNames :
                                    details[LayerNames[k]].passed})
                 score == SafetyScore(passed_checks, TotalChecks)
             IN  [ safe |-> score >= self.min_safety_score,
                   score |-> score,
                   passed_checks |-> passed_checks,
                   total_checks |-> TotalChecks,
                   reasons |-> FailedReasons(details, Len(LayerNames)),
                   details |-> details ]

\* no report yet
NoReport ==
    [ safe |-> FALSE, score |-> 0, passed_checks |-> 0, total_checks |-> 0,
      reasons |-> <<>>, details |-> <<>> ]

----------------------------------------------------------------------------
(* ModelTrainer: trade records, the persisted files and pattern analysis *)

\* _save_performance_history keeps the last 1000 trades
HistoryCap == 1000

\* _analyze_patterns needs at least 10 trades
MinTrades == 10

\* the trade_data handed to record_trade: the winning trade of the module's
\* example, a losing trade, and a winning trade without a confidence score.
\* lep_confidence is in 1/100.
TradeInputs ==
    { [pnl_percent |-> 250, safety_score |-> 80, lep_confidence |-> 75,
       virality_score |-> 85],
      [pnl_percent |-> -20, safety_score |-> 70, lep_confidence |-> 60,
       virality_score |-> 40],
      [pnl_percent |-> 10, safety_score |-> 90, lep_confidence |-> 0,
       virality_score |-> 75] }

\* trade_record of record_trade, stamped with the clock
TradeRecord(trade_data, now) ==
    [ timestamp |-> now,
      pnl_percent |-> trade_data.pnl_percent,
      win |-> trade_data.pnl_percent > 0,
      safety_score |-> trade_data.safety_score,
      lep_confidence |-> trade_data.lep_confidence,
      virality_score |-> trade_data.virality_score ]

\* history[:cap], the oldest records
KeepLast_KeepsOldest(history, cap) ==
    IF Len(history) > cap THEN SubSeq(history, 1, cap) ELSE history

\* history[-cap:] when len(history) > cap
KeepLast(history, cap) ==
    IF Len(history) > cap
    THEN SubSeq(history, Len(history) - cap + 1, Len(history))
    ELSE history

\* the file states: no file, a file holding a JSON document, a file cut
\* short by a write that failed
AbsentFile == [state |-> "absent", history |-> <<>>]
CorruptFile == [state |-> "corrupt", history |-> <<>>]
HistoryFile(history) == [state |-> "ok", history |-> history]

\* _load_performance_history: the stored list, [] when there is no file or
\* when reading raises
LoadPerformanceHistory(file, read_ok) ==
    IF file.state = "ok" /\ read_ok THEN file.history ELSE <<>>

\* _save_performance_history: the capped list replaces the file; open()
\* raising leaves the file, json.dump raising leaves it cut short
SavePerformanceHistory(file, history, write) ==
    CASE write = "ok"          -> HistoryFile(KeepLast(history, HistoryCap))
      [] write = "open_raises" -> file
      [] OTHER                 -> CorruptFile

\* the values of a field over the winning trades that are > 0, as the
\* indices of their records
PositiveAt(winning_trades, field) ==
    {i \in DOMAIN winning_trades : winning_trades[i][field] > 0}

\* the k-th smallest of those values
KthSmallest(winning_trades, field, k) ==
    LET at == PositiveAt(winning_trades, field)
        values == {winning_trades[i][field] : i \in at}
        atMost(v) == Cardinality({i \in at : winning_trades[i][field] <= v})
        fits == {v \in values : atMost(v) >= k}
    IN  CHOOSE v \in fits : \A w \in fits : v <= w

\* a median that takes the upper of the two middle values of an even count
FindOptimalThreshold_UpperMedian(winning_trades, field) ==
    LET n == Cardinality(PositiveAt(winning_trades, field))
    IN  IF n = 0 THEN 0
        ELSE 2 * KthSmallest(winning_trades, field, n \div 2 + 1)

\* _find_optimal_threshold: np.median of the positive values, 0.0 for none;
\* the result is twice the median, so that the mean of the two middle
\* values of an even count stays an integer
FindOptimalThreshold(winning_trades, field) ==
    LET n == Cardinality(PositiveAt(winning_trades, field))
    IN  IF n = 0 THEN 0
        ELSE IF n % 2 = 1 THEN 2 * KthSmallest(winning_trades, field, (n + 1) \div 2)
        ELSE KthSmallest(winning_trades, field, n \div 2)
                + KthSmallest(winning_trades, field, n \div 2 + 1)

\* win_rate is the quotient len(wins) / len(history), kept as its two terms
NoPatterns ==
    [ total_trades |-> 0, wins |-> 0, losses |-> 0,
      win_rate |-> [num |-> 0, den |-> 1],
      optimal_safety_score |-> 0, optimal_lep_confidence |-> 0,
      optimal_virality_score |-> 0 ]

AbsentPatterns == [state |-> "absent", patterns |-> NoPatterns]
CorruptPatterns == [state |-> "corrupt", patterns |-> NoPatterns]

\* patterns whose losses count every trade
Patterns_LossesFromAll(history) ==
    LET winning_trades == SelectSeq(history, LAMBDA t : t.win)
    IN  [ total_trades |-> Len(history),
          wins |-> Len(winning_trades),
          losses |-> Len(history),
          win_rate |-> [num |-> Len(winning_trades), den |-> Len(history)],
          optimal_safety_score |-> FindOptimalThreshold(winning_trades, "safety_score"),
          optimal_lep_confidence |-> FindOptimalThreshold(winning_trades, "lep_confidence"),
          optimal_virality_score |-> FindOptimalThreshold(winning_trades, "virality_score") ]

\* the patterns dict of _analyze_patterns (counts and learned thresholds)
Patterns(history) ==
    LET winning_trades == SelectSeq(history, LAMBDA t : t.win)
        losing_trades == SelectSeq(history, LAMBDA t : ~t.win)
    IN  [ total_trades |-> Len(history),
          wins |-> Len(winning_trades),
          losses |-> Len(losing_trades),
          win_rate |-> [num |-> Len(winning_trades), den |-> Len(history)],
          optimal_safety_score |-> FindOptimalThreshold(winning_trades, "safety_score"),
          optimal_lep_confidence |-> FindOptimalThreshold(winning_trades, "lep_confidence"),
          optimal_virality_score |-> FindOptimalThreshold(winning_trades, "virality_score") ]

\* an analysis that starts above MinTrades trades
AnalyzePatterns_AboveMinTrades(file, history, write) ==
    IF Len(history) <= MinTrades THEN file
    ELSE IF \A i \in DOMAIN history : ~history[i].win THEN file
    ELSE CASE write = "ok"          -> [state |-> "ok", patterns |-> Patterns(history)]
           [] write = "open_raises" -> file
           [] OTHER                 -> CorruptPatterns

\* _analyze_patterns followed by _save_patterns: nothing below MinTrades
\* trades or without a winning trade
AnalyzePatterns(file, history, write) ==
    IF Len(history) < MinTrades THEN file
    ELSE IF \A i \in DOMAIN history : ~history[i].win THEN file
    ELSE CASE write = "ok"          -> [state |-> "ok", patterns |-> Patterns(history)]
           [] write = "open_raises" -> file
           [] OTHER                 -> CorruptPatterns

\* what a file write does
WriteOutcomes == {"ok", "open_raises", "dump_raises"}

\* the number of failed operations among one read and two writes
Faults(read_ok, write, pwrite) ==
    (IF read_ok THEN 0 ELSE 1) + (IF write = "ok" THEN 0 ELSE 1)
        + (IF pwrite = "ok" THEN 0 ELSE 1)

\* the files left by earlier sessions: n trades, recorded in turn from the
\* three trade inputs, and the patterns computed from them
PriorTrade(k) ==
    CASE k % 3 = 1 -> CHOOSE t \in TradeInputs : t.pnl_percent = 250
      [] k % 3 = 2 -> CHOOSE t \in TradeInputs : t.pnl_percent = -20
      [] OTHER     -> CHOOSE t \in TradeInputs : t.pnl_percent = 10

PriorHistory(n) == [k \in 1..n |-> TradeRecord(PriorTrade(k), k)]

PriorLengths == {0, 8, 999}

\* a history of n losing trades
LosingHistory(n) ==
    [k \in 1..n |->
        TradeRecord(CHOOSE t \in TradeInputs : t.pnl_percent = -20, k)]

\* the history files a trainer is constructed over
PriorHistories ==
    {PriorHistory(n) : n \in PriorLengths} \cup {LosingHistory(9)}

\* a patterns file the learner did not write: a patterns dict of an
\* earlier layout based on 5 trades, or a JSON document that is no dict
ForeignPatterns ==
    [state |-> "foreign", patterns |-> [NoPatterns EXCEPT !.total_trades = 5]]
NotADict == [state |-> "not_dict", patterns |-> NoPatterns]

\* the patterns files a trainer is constructed over, next to the history:
\* the patterns computed from it or, for a trainer without history, a file
\* that something else wrote
PriorPatterns(history) ==
    {AnalyzePatterns(AbsentPatterns, history, "ok")}
        \cup (IF history = <<>> THEN {ForeignPatterns, NotADict} ELSE {})

\* a load whose read failure is not handled and reaches the caller's handler
LoadPatterns_Unhandled(file, read_ok) ==
    IF read_ok /\ file.state \in {"ok", "foreign"}
    THEN [kind |-> "dict", patterns |-> file.patterns]
    ELSE IF read_ok /\ file.state = "absent"
    THEN [kind |-> "None", patterns |-> NoPatterns]
    ELSE [kind |-> "other", patterns |-> NoPatterns]

\* _load_patterns: the stored document, None when there is no file or when
\* reading raises
LoadPatterns(file, read_ok) ==
    IF read_ok /\ file.state \in {"ok", "foreign"}
    THEN [kind |-> "dict", patterns |-> file.patterns]
    ELSE IF read_ok /\ file.state = "not_dict"
    THEN [kind |-> "other", patterns |-> NoPatterns]
    ELSE [kind |-> "None", patterns |-> NoPatterns]

\* safety_threshold, lep_min_confidence (in 1/100) and cascade_min_virality
\* of a default TradingConfig
TrainerConfig ==
    [safety_threshold |-> 70, lep_min_confidence |-> 60,
     cascade_min_virality |-> 75]

\* the thresholds of the configuration under a source label; thresholds
\* are kept doubled, like the learned medians
ConfigThresholds(cfg, source) ==
    [ safety_score |-> 2 * cfg.safety_threshold,
      lep_confidence |-> 2 * cfg.lep_min_confidence,
      virality_score |-> 2 * cfg.cascade_min_virality,
      source |-> source ]

\* get_recommended_thresholds on what _load_patterns returned:
\* patterns.get raises on a document that is no dict
RecommendedThresholds(cfg, loaded) ==
    IF loaded.kind = "None" THEN ConfigThresholds(cfg, "config_defaults")
    ELSE IF loaded.kind = "other" THEN ConfigThresholds(cfg, "error_fallback")
    ELSE IF loaded.patterns.total_trades < MinTrades
    THEN ConfigThresholds(cfg, "config_defaults")
    ELSE [ safety_score |-> loaded.patterns.optimal_safety_score,
           lep_confidence |-> loaded.patterns.optimal_lep_confidence,
           virality_score |-> loaded.patterns.optimal_virality_score,
           source |-> "ai_learned",
           based_on_trades |-> loaded.patterns.total_trades,
           win_rate |-> loaded.patterns.win_rate ]

NoThresholds == [source |-> "none"]

NoRecord ==
    [ read_ok |-> TRUE, write |-> "ok", pwrite |-> "ok", loaded |-> 0,
      analyzed |-> 0, record |-> TradeRecord(PriorTrade(0), 0) ]

----------------------------------------------------------------------------
(* LEPPredictor and CascadeSentinel: sub-signals, weights and results.     *)
(* Sub-signal scores are in tenths, weights in hundredths, the LEP         *)
(* confidence in thousandths, ages in seconds.                             *)

\* the snapshot of the LEP example: a naive datetime three minutes old
LepDemoToken ==
    [ liquidity_usd |-> 15000, holders |-> 85, top_holder_percent |-> 45,
      ts_kind |-> "datetime", age_seconds |-> 180, ill_typed |-> "none" ]

\* the snapshot of the Cascade example: timestamp = utcnow() just before
\* the call, so that the age is positive and below one second (one second
\* stands for it: every rate is then above its threshold)
CascadeDemoToken ==
    [ liquidity_usd |-> 20000, holders |-> 120, top_holder_percent |-> 40,
      ts_kind |-> "datetime", age_seconds |-> 1, ill_typed |-> "none" ]

\* the timestamps handed to the advisors: age_seconds is utcnow() at the
\* subtraction minus the timestamp; for a missing timestamp it is the time
\* between the two utcnow() reads
AdvisorTimestamps ==
    { <<"datetime", a>> : a \in {-60, 0, 60, 119, 120, 180, 300, 301, 600} }
        \cup { <<"iso", 180>>, <<"iso_z", 180>>, <<"malformed", 0>>,
               <<"missing", 0>>, <<"missing", 1>> }

\* snapshots that differ from the LEP example in one input
AdvisorEdgeCases ==
    { [LepDemoToken EXCEPT !.liquidity_usd = l] :
        l \in {0, 4999, 5000, 10000, 10001, 50000, 50001} }
        \cup { [LepDemoToken EXCEPT !.holders = h] :
                 h \in {0, 49, 50, 99, 100, 150, 151, 200, 201} }
        \cup { [LepDemoToken EXCEPT !.top_holder_percent = t] :
                 t \in {0, 29, 30, 49, 50, 60, 61} }
        \cup { [LepDemoToken EXCEPT !.ts_kind = ts[1], !.age_seconds = ts[2]] :
                 ts \in AdvisorTimestamps }
        \cup { [LepDemoToken EXCEPT !.ill_typed = x] :
                 x \in {"liquidity", "holders", "token"} }
        \cup { [LepDemoToken EXCEPT !.ill_typed = x, !.age_seconds = 0] :
                 x \in {"liquidity", "holders"} }

\* snapshots in which every sub-signal is given each of its inputs
AdvisorMixedCases ==
    { [ liquidity_usd |-> l, holders |-> h, top_holder_percent |-> t,
        ts_kind |-> ts[1], age_seconds |-> ts[2], ill_typed |-> "none" ] :
        l \in {4000, 8000, 15000, 60000}, h \in {40, 85, 120, 250},
        t \in {20, 45, 70},
        ts \in { <<"datetime", 30>>, <<"datetime", 180>>, <<"datetime", 600>>,
                 <<"malformed", 0>> } }

AdvisorSnapshots ==
    AdvisorEdgeCases \cup AdvisorMixedCases \cup {CascadeDemoToken}

\* historical_data: None, one sample, or two samples of which the first
\* holds the old liquidity_usd
HistoricalData == { <<>>, <<13500>>, <<13500, 14000>>, <<1000, 2000>> }

\* the thresholds the advisors copy from the configuration
AdvisorConfig == [lep_min_confidence |-> 600, cascade_min_virality |-> 75]

RECURSIVE SumSeq(_)
SumSeq(s) == IF s = <<>> THEN 0 ELSE Head(s) + SumSeq(Tail(s))

\* the signals dict of a result that computed nothing
NoSignals == [n \in {} |-> 0]

\* datetime.utcnow() - timestamp after the conversion of a string: raises
\* for a string that is no ISO date and for an aware timestamp
AgeRaises(token) ==
    LET ts == ParseTimestamp(token.ts_kind)
    IN  ts.raised \/ ts.aware

(* ---- LEPPredictor ---- *)

LepSignalNames ==
    <<"liquidity_velocity", "holder_accumulation", "age_timing",
      "volume_momentum", "dev_activity">>

LepWeights ==
    [ liquidity_velocity |-> 25, holder_accumulation |-> 25, age_timing |-> 20,
      volume_momentum |-> 15, dev_activity |-> 15 ]

\* _analyze_liquidity_velocity: half for the optimal band, half for a
\* growth above 1000 per minute since the first historical sample
AnalyzeLiquidityVelocity(token, history) ==
    IF token.ill_typed \in {"token", "liquidity"}
    THEN [score |-> 5, liquidity |-> 0, velocity |-> 0, optimal_range |-> FALSE]
    ELSE LET current_liquidity == token.liquidity_usd
             optimal_range == 5000 <= current_liquidity /\ current_liquidity <= 50000
             velocity == IF Len(history) >= 2
                         THEN token.liquidity_usd - history[1]
                         ELSE 0
             strong_velocity == velocity > 1000
         IN  [ score |-> (IF optimal_range THEN 5 ELSE 0)
                           + (IF strong_velocity THEN 5 ELSE 0),
               liquidity |-> current_liquidity,
               velocity |-> velocity,
               optimal_range |-> optimal_range ]

\* _analyze_holder_patterns: half for 50..200 holders, half for a top
\* holder of 30..60 percent
AnalyzeHolderPatterns(token) ==
    IF token.ill_typed \in {"token", "holders"}
    THEN [score |-> 5, holders |-> 0, top_holder_pct |-> 0, optimal |-> FALSE]
    ELSE LET optimal_holder_count == 50 <= token.holders /\ token.holders <= 200
             healthy_distribution == 30 <= token.top_holder_percent
                                     /\ token.top_holder_percent <= 60
         IN  [ score |-> (IF optimal_holder_count THEN 5 ELSE 0)
                           + (IF healthy_distribution THEN 5 ELSE 0),
               holders |-> token.holders,
               top_holder_pct |-> token.top_holder_percent,
               optimal |-> optimal_holder_count /\ healthy_distribution ]

\* _analyze_age_timing: full score for an age of 2 to 5 minutes; every
\* exception is answered with the neutral score
AnalyzeAgeTiming(token) ==
    IF token.ill_typed = "token" \/ AgeRaises(token)
    THEN [score |-> 5, age_seconds |-> 0, in_sweet_spot |-> FALSE]
    ELSE LET in_sweet_spot == 2 * 60 <= token.age_seconds
                              /\ token.age_seconds <= 5 * 60
         IN  [ score |-> IF in_sweet_spot THEN 10 ELSE 3,
               age_seconds |-> token.age_seconds,
               in_sweet_spot |-> in_sweet_spot ]

\* _analyze_volume: liquidity above 10000 as the proxy of volume
AnalyzeVolume(token) ==
    IF token.ill_typed \in {"token", "liquidity"}
    THEN [score |-> 5, strong_volume |-> FALSE]
    ELSE LET strong_volume == token.liquidity_usd > 10000
         IN  [score |-> IF strong_volume THEN 8 ELSE 4,
              strong_volume |-> strong_volume]

\* _analyze_dev_activity: the neutral placeholder
AnalyzeDevActivity(token) == [score |-> 5, active |-> TRUE]

\* the signals of predict_pump_timing, in the order it computes them
LepSignals(token, history) ==
    [ liquidity_velocity |-> AnalyzeLiquidityVelocity(token, history),
      holder_accumulation |-> AnalyzeHolderPatterns(token),
      age_timing |-> AnalyzeAgeTiming(token),
      volume_momentum |-> AnalyzeVolume(token),
      dev_activity |-> AnalyzeDevActivity(token) ]

\* a confidence that leaves the dev_activity signal out of the sum
CalculateConfidence_WithoutDevActivity(signals) ==
    LET confidence ==
            SumSeq([i \in 1..4 |->
                      signals[LepSignalNames[i]].score * LepWeights[LepSignalNames[i]]])
    IN  IF confidence < 0 THEN 0 ELSE IF confidence > 1000 THEN 1000 ELSE confidence

\* _calculate_confidence: the weighted sum of the scores, clamped to [0, 1].
\* The double that the code accumulates differs from the exact sum by less
\* than 1e-12 and lies on the same side of 0.4, 0.5, 0.6 and 0.8 for every
\* combination of scores the sub-signals return.
CalculateConfidence(signals) ==
    LET confidence ==
            SumSeq([i \in 1..Len(LepSignalNames) |->
                      signals[LepSignalNames[i]].score * LepWeights[LepSignalNames[i]]])
    IN  IF confidence < 0 THEN 0 ELSE IF confidence > 1000 THEN 1000 ELSE confidence

\* a prediction that applies the low-confidence rule before the shortenings
PredictHours_LowConfidenceFirst(signals, confidence) ==
    LET h0 == IF confidence < 500 THEN 24 ELSE 12
        h1 == IF signals.age_timing.in_sweet_spot THEN 6 ELSE h0
    IN  IF signals.liquidity_velocity.velocity > 2000 /\ h1 > 8 THEN 8 ELSE h1

\* _predict_hours: 12, 6 in the sweet spot, at most 8 for a velocity above
\* 2000, 24 for a confidence below 0.5
PredictHours(signals, confidence) ==
    LET h0 == 12
        h1 == IF signals.age_timing.in_sweet_spot THEN 6 ELSE h0
        h2 == IF signals.liquidity_velocity.velocity > 2000 /\ h1 > 8 THEN 8 ELSE h1
    IN  IF confidence < 500 THEN 24 ELSE h2

\* _generate_recommendation: the tier of the recommendation string
LepRecommendation(confidence, hours) ==
    IF confidence >= 800 THEN "STRONG BUY"
    ELSE IF confidence >= 600 THEN "BUY"
    ELSE IF confidence >= 400 THEN "CONSIDER"
    ELSE "SKIP"

LepDisabled ==
    [ confidence |-> 0, predicted_hours |-> 0, signals |-> NoSignals,
      recommendation |-> "LEP disabled", computed |-> {}, log |-> <<>> ]

\* a predictor that does not look at its switch
PredictPumpTiming_AlwaysOn(enabled, token, history) ==
    LET signals == LepSignals(token, history)
        confidence == CalculateConfidence(signals)
        predicted_hours == PredictHours(signals, confidence)
    IN  [ confidence |-> confidence,
          predicted_hours |-> predicted_hours,
          signals |-> signals,
          recommendation |-> LepRecommendation(confidence, predicted_hours),
          computed |-> DOMAIN signals,
          log |-> IF confidence >= AdvisorConfig.lep_min_confidence
                  THEN <<"info">> ELSE <<>> ]

\* predict_pump_timing: the result dict, with the sub-signals it computed
\* and the log records it wrote
PredictPumpTimingResult(enabled, token, history) ==
    IF ~enabled THEN LepDisabled
    ELSE LET signals == LepSignals(token, history)
             confidence == CalculateConfidence(signals)
             predicted_hours == PredictHours(signals, confidence)
         IN  [ confidence |-> confidence,
               predicted_hours |-> predicted_hours,
               signals |-> signals,
               recommendation |-> LepRecommendation(confidence, predicted_hours),
               computed |-> DOMAIN signals,
               log |-> IF confidence >= AdvisorConfig.lep_min_confidence
                       THEN <<"info">> ELSE <<>> ]

(* ---- CascadeSentinel ---- *)

CascadeSignalNames ==
    <<"network_velocity", "holder_diversity", "early_adopter_quality",
      "liquidity_cascade", "social_momentum">>

CascadeWeights ==
    [ network_velocity |-> 25, holder_diversity |-> 20,
      early_adopter_quality |-> 20, liquidity_cascade |-> 25,
      social_momentum |-> 10 ]

\* _get_age_minutes, in seconds: one minute when the age cannot be computed
GetAgeSeconds(token) == IF AgeRaises(token) THEN 60 ELSE token.age_seconds

\* _analyze_network_growth: more than 10 holders per minute of age; the
\* division is reached only for a positive age
AnalyzeNetworkGrowth(token) ==
    LET age == GetAgeSeconds(token)
    IN  IF token.ill_typed = "token" \/ (token.ill_typed = "holders" /\ age > 0)
        THEN [score |-> 5, holders |-> 0, strong_growth |-> FALSE]
        ELSE LET strong_growth == age > 0 /\ token.holders * 60 > 10 * age
             IN  [score |-> IF strong_growth THEN 8 ELSE 4,
                  holders |-> token.holders,
                  strong_growth |-> strong_growth]

\* _analyze_holder_diversity: half for 100 holders or more, half for a top
\* holder below 50 percent
AnalyzeHolderDiversity(token) ==
    IF token.ill_typed \in {"token", "holders"}
    THEN [score |-> 5, holders |-> 0, top_holder_pct |-> 0, diverse |-> FALSE]
    ELSE LET good_holder_count == token.holders >= 100
             decentralized == token.top_holder_percent < 50
         IN  [ score |-> (IF good_holder_count THEN 5 ELSE 0)
                           + (IF decentralized THEN 5 ELSE 0),
               holders |-> token.holders,
               top_holder_pct |-> token.top_holder_percent,
               diverse |-> good_holder_count /\ decentralized ]

\* _analyze_early_adopters: 50..150 holders
AnalyzeEarlyAdopters(token) ==
    IF token.ill_typed \in {"token", "holders"}
    THEN [score |-> 5, quality |-> "unknown"]
    ELSE LET optimal_early_adopters == 50 <= token.holders /\ token.holders <= 150
         IN  [score |-> IF optimal_early_adopters THEN 7 ELSE 4,
              quality |-> IF optimal_early_adopters THEN "high" ELSE "medium"]

\* _analyze_liquidity_cascade: more than 1000 of liquidity per minute of age
AnalyzeLiquidityCascade(token) ==
    LET age == GetAgeSeconds(token)
    IN  IF token.ill_typed = "token" \/ (token.ill_typed = "liquidity" /\ age > 0)
        THEN [score |-> 5, liquidity |-> 0, strong_cascade |-> FALSE]
        ELSE LET strong_cascade == age > 0 /\ token.liquidity_usd * 60 > 1000 * age
             IN  [score |-> IF strong_cascade THEN 8 ELSE 4,
                  liquidity |-> token.liquidity_usd,
                  strong_cascade |-> strong_cascade]

\* _analyze_social_momentum: neutral with and without social data
AnalyzeSocialMomentum(has_social_data) ==
    [score |-> 5, momentum |-> IF has_social_data THEN "neutral" ELSE "unknown"]

CascadeSignals(token, has_social_data) ==
    [ network_velocity |-> AnalyzeNetworkGrowth(token),
      holder_diversity |-> AnalyzeHolderDiversity(token),
      early_adopter_quality |-> AnalyzeEarlyAdopters(token),
      liquidity_cascade |-> AnalyzeLiquidityCascade(token),
      social_momentum |-> AnalyzeSocialMomentum(has_social_data) ]

\* the score tuples whose sum the code accumulates, in double precision, to
\* a value just below the exact sum (0.48999999999999994 for 0.49,
\* 0.38999999999999996 for 0.39), so that int(score * 100) is one less
SumsBelowExact == { <<8, 0, 7, 4, 5>>, <<4, 0, 7, 4, 5>>, <<4, 5, 7, 4, 5>> }

\* a score that is not brought to the scale of 0..100
CalculateViralityScore_Unscaled(signals) ==
    SumSeq([i \in 1..Len(CascadeSignalNames) |->
              signals[CascadeSignalNames[i]].score
                  * CascadeWeights[CascadeSignalNames[i]]])

\* _calculate_virality_score: int(score * 100) of the weighted sum
CalculateViralityScore(signals) ==
    LET scores == [i \in 1..Len(CascadeSignalNames) |->
                     signals[CascadeSignalNames[i]].score]
        thousandths ==
            SumSeq([i \in 1..Len(CascadeSignalNames) |->
                      scores[i] * CascadeWeights[CascadeSignalNames[i]]])
    IN  IF scores \in SumsBelowExact /\ thousandths % 10 = 0
        THEN thousandths \div 10 - 1
        ELSE thousandths \div 10

\* _generate_recommendation: the tier of the recommendation string
CascadeRecommendation(virality_score) ==
    IF virality_score >= 90 THEN "VIRAL ALERT"
    ELSE IF virality_score >= 75 THEN "STRONG VIRAL"
    ELSE IF virality_score >= 60 THEN "MODERATE VIRAL"
    ELSE IF virality_score >= 40 THEN "LOW VIRAL"
    ELSE "NO VIRAL"

CascadeDisabled ==
    [ virality_score |-> 0, cascade_signals |-> NoSignals,
      recommendation |-> "Cascade disabled", viral_probability |-> 0,
      computed |-> {}, log |-> <<>> ]

\* predict_virality: the result dict, with the sub-signals it computed and
\* the log records it wrote; viral_probability is in thousandths
PredictViralityResult(enabled, token, has_social_data) ==
    IF ~enabled THEN CascadeDisabled
    ELSE LET signals == CascadeSignals(token, has_social_data)
             virality_score == CalculateViralityScore(signals)
         IN  [ virality_score |-> virality_score,
               cascade_signals |-> signals,
               recommendation |-> CascadeRecommendation(virality_score),
               viral_probability |-> (virality_score * 1000) \div 100,
               computed |-> DOMAIN signals,
               log |-> IF virality_score >= AdvisorConfig.cascade_min_virality
                       THEN <<"info">> ELSE <<>> ]

\* before the call
NoAdvice == [computed |-> {}, log |-> <<>>]

----------------------------------------------------------------------------
(* SolanaMonitor and BSCMonitor: what the nodes answer and how one poll    *)
(* works through the answer                                                *)

\* the transaction signatures the RPC node knows of
Signatures == {"sig1", "sig2", "sig3"}

\* the answers of get_signatures_for_address: the most recent signatures,
\* so that successive answers overlap; <<>> also stands for a failed call
SignatureResponses ==
    {<<>>} \cup { <<a>> : a \in Signatures }
           \cup { r \in Signatures \X Signatures : r[1] # r[2] }

\* what happens to a signature that is new: get_transaction raises, the
\* transaction has no value, the callback is awaited and returns, or the
\* callback is awaited and raises
SignatureOutcomes == {"tx_raises", "no_value", "deliver", "callback_raises"}

Range(s) == {s[i] : i \in DOMAIN s}

Count(detected, id) == [detected EXCEPT ![id] = @ + 1]

\* a test that takes every signature for new
AlreadySeen_Never(signature, seen) == FALSE

\* "if signature in self.seen_tokens"
AlreadySeen(signature, seen) == signature \in seen

\* the loop of _check_raydium_pools over response.value: a seen signature
\* is skipped, a new one is added to seen_tokens before its transaction is
\* fetched; an exception ends the loop
RECURSIVE ProcessSignatures(_, _, _, _)
ProcessSignatures(sigs, seen, detected, outcome) ==
    IF sigs = <<>> THEN [seen |-> seen, detected |-> detected]
    ELSE LET signature == Head(sigs)
             seen1 == seen \cup {signature}
         IN  IF AlreadySeen(signature, seen)
             THEN ProcessSignatures(Tail(sigs), seen, detected, outcome)
             ELSE CASE outcome[signature] = "tx_raises" ->
                         [seen |-> seen1, detected |-> detected]
                    [] outcome[signature] = "no_value" ->
                         ProcessSignatures(Tail(sigs), seen1, detected, outcome)
                    [] outcome[signature] = "deliver" ->
                         ProcessSignatures(Tail(sigs), seen1,
                                           Count(detected, signature), outcome)
                    [] OTHER ->
                         [seen |-> seen1, detected |-> Count(detected, signature)]

\* the pair addresses of the PairCreated events the factory emitted
PairAddresses == {"pair1", "pair2", "pair3"}

\* the PairCreated events of a block after the starting block, in log
\* order; the event of pair1 is found again in a later block
PairCreatedEvents(block) ==
    CASE block % 4 = 1 -> <<"pair1">>
      [] block % 4 = 2 -> <<"pair2", "pair1">>
      [] block % 4 = 3 -> <<"pair3">>
      [] OTHER         -> <<>>

\* get_all_entries of the filter over [from_block, to_block]
RECURSIVE EventsIn(_, _)
EventsIn(from_block, to_block) ==
    IF from_block > to_block THEN <<>>
    ELSE PairCreatedEvents(from_block) \o EventsIn(from_block + 1, to_block)

\* what happens to a pair that is new: _get_token_data returns None, the
\* callback is awaited and returns, or the callback is awaited and raises
PairOutcomes == {"no_data", "deliver", "callback_raises"}

\* the loop of _check_new_pairs over the events: a seen pair is skipped, a
\* new one is added to seen_pairs before its token data is fetched; an
\* exception ends the loop
RECURSIVE ProcessEvents(_, _, _, _)
ProcessEvents(events, seen, detected, outcome) ==
    IF events = <<>> THEN [seen |-> seen, detected |-> detected]
    ELSE LET pair_address == Head(events)
             seen1 == seen \cup {pair_address}
         IN  IF pair_address \in seen
             THEN ProcessEvents(Tail(events), seen, detected, outcome)
             ELSE CASE outcome[pair_address] = "no_data" ->
                         ProcessEvents(Tail(events), seen1, detected, outcome)
                    [] outcome[pair_address] = "deliver" ->
                         ProcessEvents(Tail(events), seen1,
                                       Count(detected, pair_address), outcome)
                    [] OTHER ->
                         [seen |-> seen1, detected |-> Count(detected, pair_address)]

\* a range that starts at last_block itself
FromBlock_Inclusive(block) == block

\* the first block of the range handed to _check_new_pairs: last_block + 1
FromBlock(block) == block + 1

\* before the first pass of the loop
NoScan == [kind |-> "none", from_block |-> 0, to_block |-> 0]

----------------------------------------------------------------------------
(* TelegramAlerts: configuration, credentials and one delivery *)

\* the alert operations
AlertOps ==
    { "send_token_detected_alert", "send_buy_alert", "send_sell_alert",
      "send_rug_alert", "send_error_alert", "send_session_summary" }

\* the telegram section of the configuration: everything on (the default),
\* everything off, alerts off with the kinds on, alerts on with buy and
\* error alerts only, alerts on with sell and rug alerts only
AlertConfig(enabled, buy, sell, rug, error) ==
    [ telegram_enabled |-> enabled, telegram_alert_buy |-> buy,
      telegram_alert_sell |-> sell, telegram_alert_rug |-> rug,
      telegram_alert_error |-> error ]

DefaultAlertConfig == AlertConfig(TRUE, TRUE, TRUE, TRUE, TRUE)

AlertConfigs ==
    { DefaultAlertConfig,
      AlertConfig(FALSE, FALSE, FALSE, FALSE, FALSE),
      AlertConfig(FALSE, TRUE, TRUE, TRUE, TRUE),
      AlertConfig(TRUE, TRUE, FALSE, FALSE, TRUE),
      AlertConfig(TRUE, FALSE, TRUE, TRUE, FALSE) }

\* the values of an environment variable: unset (os.getenv answers ''),
\* blank, a credential, a credential between blanks
EnvValues == {"", " ", "123:abc", " 123:abc "}

DefaultEnv == [TELEGRAM_BOT_TOKEN |-> "123:abc", TELEGRAM_CHAT_ID |-> "123:abc"]

Environments == [TELEGRAM_BOT_TOKEN : EnvValues, TELEGRAM_CHAT_ID : EnvValues]

\* str.strip() on those values
Strip(value) ==
    CASE value = " "         -> ""
      [] value = " 123:abc " -> "123:abc"
      [] OTHER               -> value

\* an __init__ that does not look at the credentials
TelegramEnabled_IgnoresCredentials(cfg, env) == cfg.telegram_enabled

\* self.enabled after __init__: config.telegram_enabled, switched off when
\* the stripped bot token or chat id is empty
TelegramEnabled(cfg, env) ==
    LET bot_token == Strip(env.TELEGRAM_BOT_TOKEN)
        chat_id == Strip(env.TELEGRAM_CHAT_ID)
    IN  IF cfg.telegram_enabled /\ (bot_token = "" \/ chat_id = "")
        THEN FALSE
        ELSE cfg.telegram_enabled

\* the alert_on_* flag an operation tests next to self.enabled; detection
\* alerts and the session summary test none
AlertOn(cfg, op) ==
    CASE op = "send_buy_alert"   -> cfg.telegram_alert_buy
      [] op = "send_sell_alert"  -> cfg.telegram_alert_sell
      [] op = "send_rug_alert"   -> cfg.telegram_alert_rug
      [] op = "send_error_alert" -> cfg.telegram_alert_error
      [] OTHER                   -> TRUE

\* what the POST to the Bot API does: answers 200, answers another status,
\* runs into the 10 s timeout, raises another exception (no connection, ...)
DeliveryOutcomes == {"status_200", "status_other", "timeout", "exception"}

\* the exception the POST raises, "none" when the Bot API answers
PostRaises(delivery) ==
    CASE delivery = "timeout"   -> "TimeoutError"
      [] delivery = "exception" -> "ClientError"
      [] OTHER                  -> "none"

\* the exception building the message raises on a payload it cannot
\* slice or format
BuildRaises(payload_ok) == IF payload_ok THEN "none" ELSE "TypeError"

\* the classes "except asyncio.TimeoutError" and "except Exception" catch
TimeoutErrors == {"TimeoutError"}
Exceptions == {"TimeoutError", "ClientError", "TypeError"}

\* what leaves a try statement whose body raised exc
Uncaught(exc, caught) == IF exc \in caught THEN "none" ELSE exc

\* what a call did: the exception that left it, the POSTs it made and the
\* messages the Bot API accepted
Outcome(raised, posts, delivered) ==
    [raised |-> raised, posts |-> posts, delivered |-> delivered]

\* _send_message(text): nothing when disabled; otherwise one POST inside
\* try / except asyncio.TimeoutError / except Exception; a status other
\* than 200 is logged
SendMessage(enabled, delivery) ==
    IF ~enabled THEN Outcome("none", 0, 0)
    ELSE Outcome(Uncaught(PostRaises(delivery), TimeoutErrors \cup Exceptions),
                 1,
                 IF delivery = "status_200" THEN 1 ELSE 0)

\* the body shared by the six send_* operations: return when disabled or
\* when the kind is switched off; build the message and await
\* _send_message inside try / except Exception
SendAlert(enabled, cfg, op, payload_ok, delivery) ==
    IF ~enabled \/ ~AlertOn(cfg, op) THEN Outcome("none", 0, 0)
    ELSE IF BuildRaises(payload_ok) # "none"
    THEN Outcome(Uncaught(BuildRaises(payload_ok), Exceptions), 0, 0)
    ELSE LET sent == SendMessage(enabled, delivery)
         IN  Outcome(Uncaught(sent.raised, Exceptions), sent.posts, sent.delivered)

\* before the first alert operation
NoAlert ==
    [ op |-> "none", payload_ok |-> TRUE, delivery |-> "status_200",
      raised |-> "none", posts |-> 0, delivered |-> 0 ]

----------------------------------------------------------------------------
(* Initial states *)

NoPoll == [mon |-> 0, price |-> 0, peak |-> 0, pnl |-> 0, exit |-> "None"]
NoCall == [op |-> "none", result |-> "none", tipped |-> FALSE]

InitBotWith(cfg) ==
    /\ config = cfg
    /\ running = FALSE
    /\ paper_balance = cfg.initial_balance
    /\ current_position = None
    /\ positions = <<>>
    /\ trades_history = <<>>
    /\ wins = 0
    /\ losses = 0
    /\ main_pc = "init"
    /\ det_pc = "idle"
    /\ mon = <<>>
    /\ detections = 0
    /\ last_poll = NoPoll

\* TelegramAlerts.__init__
InitAlertsWith(cfg, env) ==
    /\ tg_config = cfg
    /\ tg_env = env
    /\ tg_enabled = TelegramEnabled(cfg, env)
    /\ requests = 0
    /\ alerts = 0
    /\ last_alert = NoAlert

InitEngineWith(net, jito, lib, wal) ==
    /\ network = net
    /\ use_jito = (jito /\ net = "solana")
    /\ libs = lib
    /\ wallet_loaded = wal
    /\ jito_tip_account_index = 0
    /\ tip_log = <<>>
    /\ calls = 0
    /\ last_call = NoCall

InitSafetyWith(cfg, token) ==
    /\ filters = cfg
    /\ token_data = token
    /\ report = NoReport
    /\ sf_pc = "idle"

\* a trainer constructed over the files of earlier sessions
InitTrainerWith(history, patterns) ==
    /\ performance_file = IF history = <<>> THEN AbsentFile ELSE HistoryFile(history)
    /\ patterns_file = patterns
    /\ utcnow = Len(history)
    /\ records = 0
    /\ io_faults = 0
    /\ last_record = NoRecord
    /\ last_thresholds = NoThresholds

\* the defaults of TradingConfig._parse_config (10.0 SOL at 0.05 SOL per trade)
DefaultConfig ==
    [ initial_balance |-> 20000, take_profit |-> 300, stop_loss |-> 20,
      trailing_stop |-> TRUE, trailing_distance |-> 20,
      min_liquidity_usd |-> 5000, min_holders |-> 50,
      max_top_holder_percent |-> 60, max_token_age_minutes |-> 5 ]

\* the two advisors constructed from the configuration, and the snapshot
\* they are going to be called with
InitAdvisorWith(lep, cascade, token, history) ==
    /\ lep_enabled = lep
    /\ cascade_enabled = cascade
    /\ snapshot = token
    /\ historical_data = history
    /\ lep_result = NoAdvice
    /\ cascade_result = NoAdvice
    /\ lep_pc = "idle"
    /\ cascade_pc = "idle"

\* the two monitors after __init__ and start(): nothing seen, last_block at
\* the starting block (block numbers are counted from it)
InitMonitors ==
    /\ seen_tokens = {}
    /\ sol_detected = [s \in Signatures |-> 0]
    /\ sol_polls = 0
    /\ sol_overlap = {}
    /\ seen_pairs = {}
    /\ last_block = 0
    /\ bsc_detected = [p \in PairAddresses |-> 0]
    /\ last_scan = NoScan
    /\ scanned = [b \in 1..MaxBlock |-> 0]

Init ==
    /\ \E cfg \in Configs : InitBotWith(cfg)
    /\ InitEngineWith("solana", TRUE, TRUE, TRUE)
    /\ InitSafetyWith(DefaultFilters, DemoSnapshot)
    /\ InitTrainerWith(<<>>, AbsentPatterns)
    /\ InitAdvisorWith(TRUE, TRUE, LepDemoToken, <<>>)
    /\ InitMonitors
    /\ InitAlertsWith(DefaultAlertConfig, DefaultEnv)

----------------------------------------------------------------------------
(* PaperTradingBot: operations *)

\* _signal_handler: runs between any two bytecodes of the process
SignalHandler ==
    /\ main_pc # "exited"
    /\ running' = FALSE
    /\ UNCHANGED <<config, paper_balance, current_position, positions,
                   trades_history, wins, losses, main_pc, det_pc, mon,
                   detections, last_poll>>
    /\ UNCHANGED notBotVars

\* start(): the balance check, then running = True and into _monitor_solana
Start ==
    /\ main_pc = "init"
    /\ IF paper_balance < InvestmentAmount
       THEN /\ main_pc' = "exited"
            /\ UNCHANGED <<running, det_pc>>
       ELSE /\ running' = TRUE
            /\ main_pc' = "running"
            /\ det_pc' = "loop"
    /\ UNCHANGED <<config, paper_balance, current_position, positions,
                   trades_history, wins, losses, mon, detections, last_poll>>
    /\ UNCHANGED notBotVars

\* _monitor_solana: while self.running
DetectLoopCheck ==
    /\ det_pc = "loop"
    /\ det_pc' = IF running THEN "sleep" ELSE "exit"
    /\ UNCHANGED <<config, running, paper_balance, current_position, positions,
                   trades_history, wins, losses, main_pc, mon, detections,
                   last_poll>>
    /\ UNCHANGED notBotVars

\* _simulate_buy: balance, position, create_task
SimulateBuy ==
    /\ paper_balance' = paper_balance - InvestmentAmount
    /\ positions' = Append(positions,
                           [ token |-> DemoToken,
                             amount |-> InvestmentAmount,
                             entry_price |-> EntryPrice,
                             entry_time |-> detections',
                             peak_price |-> EntryPrice ])
    /\ current_position' = Len(positions) + 1
    /\ mon' = Append(mon, [pc |-> "created", position |-> None, after_stop |-> 0])

\* a _process_token without the open-position check
ProcessToken_NoSlotCheck ==
    IF ~CheckSafety(config)
    THEN UNCHANGED <<paper_balance, positions, current_position, mon>>
    ELSE IF paper_balance < InvestmentAmount
    THEN UNCHANGED <<paper_balance, positions, current_position, mon>>
    ELSE SimulateBuy

\* _process_token
ProcessToken ==
    IF ~CheckSafety(config)
    THEN UNCHANGED <<paper_balance, positions, current_position, mon>>
    ELSE IF current_position # None
    THEN UNCHANGED <<paper_balance, positions, current_position, mon>>
    ELSE IF paper_balance < InvestmentAmount
    THEN UNCHANGED <<paper_balance, positions, current_position, mon>>
    ELSE SimulateBuy

\* _monitor_solana: asyncio.sleep(30) returns, the demo token is processed
DetectWake ==
    /\ det_pc = "sleep"
    /\ TimerMayFire
    /\ detections < MaxDetections
    /\ detections' = detections + 1
    /\ ProcessToken
    /\ det_pc' = "loop"
    /\ UNCHANGED <<config, running, trades_history, wins, losses, main_pc,
                   last_poll>>
    /\ UNCHANGED notBotVars

\* _monitor_solana: the loop body raises, except Exception, asyncio.sleep(5)
DetectError ==
    /\ det_pc = "sleep"
    /\ TimerMayFire
    /\ detections < MaxDetections
    /\ detections' = detections + 1
    /\ det_pc' = "errsleep"
    /\ UNCHANGED <<config, running, paper_balance, current_position, positions,
                   trades_history, wins, losses, main_pc, mon, last_poll>>
    /\ UNCHANGED notBotVars

\* _monitor_solana: asyncio.sleep(5) of the except branch returns
DetectErrWake ==
    /\ det_pc = "errsleep"
    /\ TimerMayFire
    /\ det_pc' = "loop"
    /\ UNCHANGED <<config, running, paper_balance, current_position, positions,
                   trades_history, wins, losses, main_pc, mon, detections,
                   last_poll>>
    /\ UNCHANGED notBotVars

\* a shutdown path that force-closes the open position
Shutdown_ClosesPosition ==
    /\ det_pc = "exit"
    /\ det_pc' = "done"
    /\ main_pc' = "exited"
    /\ mon' = [i \in DOMAIN mon |->
                 IF mon[i].pc \in {"created", "sleep", "backoff"}
                 THEN [mon[i] EXCEPT !.pc = "cancelled"]
                 ELSE mon[i]]
    /\ current_position' = None
    /\ UNCHANGED <<config, running, paper_balance, positions,
                   trades_history, wins, losses, detections, last_poll>>
    /\ UNCHANGED notBotVars

\* start(): finally shutdown(); main() returns and asyncio.run cancels the
\* tasks that are still pending
Shutdown ==
    /\ det_pc = "exit"
    /\ det_pc' = "done"
    /\ main_pc' = "exited"
    /\ mon' = [i \in DOMAIN mon |->
                 IF mon[i].pc \in {"created", "sleep", "backoff"}
                 THEN [mon[i] EXCEPT !.pc = "cancelled"]
                 ELSE mon[i]]
    /\ UNCHANGED <<config, running, paper_balance, current_position, positions,
                   trades_history, wins, losses, detections, last_poll>>
    /\ UNCHANGED notBotVars

\* _monitor_position: position = self.current_position, position['token'],
\* then the first evaluation of the while condition
MonitorStart(i) ==
    /\ mon[i].pc = "created"
    /\ main_pc = "running"
    /\ DetectionSuspended
    /\ IF current_position = None
       THEN mon' = [mon EXCEPT ![i].pc = "crashed"]
       ELSE mon' = [mon EXCEPT ![i].position = current_position,
                               ![i].pc = IF LoopCond(positions, current_position)
                                         THEN "sleep" ELSE "done"]
    /\ UNCHANGED <<config, running, paper_balance, current_position, positions,
                   trades_history, wins, losses, main_pc, det_pc, detections,
                   last_poll>>
    /\ UNCHANGED notBotVars

\* 0, 1 or 2 (2 = more than one)
Bump(n) == IF n < 2 THEN n + 1 ELSE 2

\* loop bodies this monitor starts after the shutdown flag was set
AfterStop(i) == IF running THEN mon[i].after_stop ELSE Bump(mon[i].after_stop)

\* a _simulate_sell that does not clear the slot
SimulateSell_KeepsSlot(exit_price, pnl_percent, reason) ==
    LET position == current_position
        token_address == positions[position].token
        amount == positions[position].amount
    IN  /\ paper_balance' = paper_balance + SellValue(amount, pnl_percent)
        /\ IF pnl_percent > 0
           THEN wins' = wins + 1 /\ losses' = losses
           ELSE losses' = losses + 1 /\ wins' = wins
        /\ current_position' = current_position
        /\ trades_history' = Append(trades_history,
                                    [ token |-> token_address,
                                      pnl |-> pnl_percent,
                                      reason |-> reason ])

\* a _simulate_sell that records winning trades only
SimulateSell_NoRecordOnLoss(exit_price, pnl_percent, reason) ==
    LET position == current_position
        token_address == positions[position].token
        amount == positions[position].amount
    IN  /\ paper_balance' = paper_balance + SellValue(amount, pnl_percent)
        /\ IF pnl_percent > 0
           THEN wins' = wins + 1 /\ losses' = losses
           ELSE losses' = losses + 1 /\ wins' = wins
        /\ current_position' = None
        /\ trades_history' = IF pnl_percent > 0
                             THEN Append(trades_history,
                                         [ token |-> token_address,
                                           pnl |-> pnl_percent,
                                           reason |-> reason ])
                             ELSE trades_history

\* _simulate_sell: balance, wins / losses, clear the slot, append the record
SimulateSell(exit_price, pnl_percent, reason) ==
    LET position == current_position
        token_address == positions[position].token
        amount == positions[position].amount
    IN  /\ paper_balance' = paper_balance + SellValue(amount, pnl_percent)
        /\ IF pnl_percent > 0
           THEN wins' = wins + 1 /\ losses' = losses
           ELSE losses' = losses + 1 /\ wins' = wins
        /\ current_position' = None
        /\ trades_history' = Append(trades_history,
                                    [ token |-> token_address,
                                      pnl |-> pnl_percent,
                                      reason |-> reason ])

\* _monitor_position: asyncio.sleep(5) returns; price, pnl, peak, exit
\* conditions, _simulate_sell and break, or back to the while condition
MonitorPoll(i) ==
    /\ mon[i].pc = "sleep"
    /\ TimerMayFire
    /\ \E change \in PriceChanges :
        LET pos == mon[i].position
            entry_price == positions[pos].entry_price
            current_price == CurrentPrice(entry_price, change)
            pnl_percent == PnlPercent(current_price, entry_price)
            peak_price == NewPeak(positions[pos].peak_price, current_price)
            exit_reason == ExitReason(config, pnl_percent, peak_price, current_price)
        IN  /\ positions' = [positions EXCEPT ![pos].peak_price = peak_price]
            /\ last_poll' = [mon |-> i, price |-> current_price,
                             peak |-> peak_price, pnl |-> pnl_percent,
                             exit |-> exit_reason]
            /\ IF exit_reason # "None"
               THEN IF current_position = None
                    THEN \* _simulate_sell: position['token'] raises, except
                         \* Exception, asyncio.sleep(10)
                         /\ mon' = [mon EXCEPT ![i].pc = "backoff",
                                               ![i].after_stop = AfterStop(i)]
                         /\ UNCHANGED <<paper_balance, wins, losses,
                                        current_position, trades_history>>
                    ELSE \* _simulate_sell, then break
                         /\ SimulateSell(current_price, pnl_percent, exit_reason)
                         /\ mon' = [mon EXCEPT ![i].pc = "done",
                                               ![i].after_stop = AfterStop(i)]
               ELSE \* back to the while condition, on the updated dict
                    /\ mon' = [mon EXCEPT
                                 ![i].pc = IF LoopCond(positions', pos)
                                           THEN "sleep" ELSE "done",
                                 ![i].after_stop = AfterStop(i)]
                    /\ UNCHANGED <<paper_balance, wins, losses,
                                   current_position, trades_history>>
    /\ UNCHANGED <<config, running, main_pc, det_pc, detections>>
    /\ UNCHANGED notBotVars

\* _monitor_position: the loop body raises before it changes anything,
\* except Exception, asyncio.sleep(10)
MonitorError(i) ==
    /\ mon[i].pc = "sleep"
    /\ TimerMayFire
    /\ mon' = [mon EXCEPT ![i].pc = "backoff", ![i].after_stop = AfterStop(i)]
    /\ UNCHANGED <<config, running, paper_balance, current_position, positions,
                   trades_history, wins, losses, main_pc, det_pc, detections,
                   last_poll>>
    /\ UNCHANGED notBotVars

\* _monitor_position: asyncio.sleep(10) returns, back to the while condition
MonitorBackoffWake(i) ==
    /\ mon[i].pc = "backoff"
    /\ TimerMayFire
    /\ mon' = [mon EXCEPT ![i].pc = IF LoopCond(positions, mon[i].position)
                                    THEN "sleep" ELSE "done"]
    /\ UNCHANGED <<config, running, paper_balance, current_position, positions,
                   trades_history, wins, losses, main_pc, det_pc, detections,
                   last_poll>>
    /\ UNCHANGED notBotVars

----------------------------------------------------------------------------
(* ExecutionEngine *)

\* ExecutionEngine.JITO_TIP_ACCOUNTS
JITO_TIP_ACCOUNTS ==
    << "96gYZGLnJYVFmbjzopPSU6QiEV5fGqZNyN9nmNhvrZU5",
       "HFqU5x63VTqvQss8hp11i4wVV8bD44PvwucfZ2bU7gRe",
       "Cw8CFyM9FkoMi7K7Crf6HNQqf4uEMzpKw6QNghXLvLkY",
       "ADaUMid9yfUytqMBgopwjb2DTLSokTSzL1zt6iGPaS49",
       "DfXygSm4jCyNCybVYYK6DwvWqjKee8pbDmJGcLWNDXjh",
       "ADuUkR4vqLUMWXxW9gh6D6L8pMSawimctcNZ5pGwDcEt",
       "DttWaMuVvTiduZRnguLF7jNxTgiMBZ1hyAumKUiL2KRL",
       "3AVi9Tg9Uo68tJfuvoKvqKNWKkC5wPdSSdeBnizKZ6jT" >>

\* len(self.JITO_TIP_ACCOUNTS)
PoolSize == Len(JITO_TIP_ACCOUNTS)

\* JITO_TIP_ACCOUNTS[index], the Python list being indexed from 0
TipAccountAt(index) == JITO_TIP_ACCOUNTS[index + 1]

\* a rotation that wraps one entry early
NextTipIndex_WrapsEarly(index) == (index + 1) % (PoolSize - 1)

\* (self.jito_tip_account_index + 1) % len(self.JITO_TIP_ACCOUNTS)
NextTipIndex(index) == (index + 1) % PoolSize

\* _get_jito_tip_account: return the current entry, advance the index
GetJitoTipAccount ==
    /\ tip_log' = Append(tip_log, TipAccountAt(jito_tip_account_index))
    /\ jito_tip_account_index' = NextTipIndex(jito_tip_account_index)

\* what the construction of the RPC client and its close() can do
ClientOutcomes == {"ok", "construct_raises", "close_raises"}

\* _buy_solana
BuySolana(outcome) ==
    IF ~libs \/ ~wallet_loaded \/ outcome = "construct_raises"
    THEN /\ last_call' = [op |-> "buy", result |-> "None", tipped |-> FALSE]
         /\ UNCHANGED <<jito_tip_account_index, tip_log>>
    ELSE /\ IF use_jito
            THEN GetJitoTipAccount
            ELSE UNCHANGED <<jito_tip_account_index, tip_log>>
         /\ last_call' = [op |-> "buy",
                          result |-> IF outcome = "close_raises"
                                     THEN "None" ELSE "success",
                          tipped |-> use_jito]

\* buy_token: dispatch on the network
BuyToken ==
    /\ calls < MaxCalls
    /\ calls' = calls + 1
    /\ \E outcome \in ClientOutcomes :
        IF network = "solana" THEN BuySolana(outcome)
        ELSE IF network = "bsc"
        THEN \* _buy_bsc
             /\ last_call' = [op |-> "buy",
                              result |-> IF libs /\ wallet_loaded
                                         THEN "success" ELSE "None",
                              tipped |-> FALSE]
             /\ UNCHANGED <<jito_tip_account_index, tip_log>>
        ELSE /\ last_call' = [op |-> "buy", result |-> "None", tipped |-> FALSE]
             /\ UNCHANGED <<jito_tip_account_index, tip_log>>
    /\ UNCHANGED <<network, use_jito, libs, wallet_loaded>>
    /\ UNCHANGED notEngVars

\* sell_token: dispatch on the network; _sell_solana and _sell_bsc
SellToken ==
    /\ calls < MaxCalls
    /\ calls' = calls + 1
    /\ last_call' = [op |-> "sell",
                     result |-> IF network \in {"solana", "bsc"}
                                THEN "success" ELSE "None",
                     tipped |-> FALSE]
    /\ UNCHANGED <<jito_tip_account_index, tip_log>>
    /\ UNCHANGED <<network, use_jito, libs, wallet_loaded>>
    /\ UNCHANGED notEngVars

InitEngine ==
    /\ InitBotWith(DefaultConfig)
    /\ \E net \in {"solana", "bsc", "ethereum"}, jito \in BOOLEAN,
          lib \in BOOLEAN, wal \in BOOLEAN :
            InitEngineWith(net, jito, lib, wal)
    /\ InitSafetyWith(DefaultFilters, DemoSnapshot)
    /\ InitTrainerWith(<<>>, AbsentPatterns)
    /\ InitAdvisorWith(TRUE, TRUE, LepDemoToken, <<>>)
    /\ InitMonitors
    /\ InitAlertsWith(DefaultAlertConfig, DefaultEnv)

NextEngine ==
    \/ BuyToken
    \/ SellToken

SpecEngine == InitEngine /\ [][NextEngine]_vars

----------------------------------------------------------------------------
(* SafetyFilters: operations *)

\* analyze_token(token_data): the five layers in order, then score and safe
AnalyzeToken ==
    /\ sf_pc = "idle"
    /\ report' = AnalyzeTokenResult(filters, token_data)
    /\ sf_pc' = "done"
    /\ UNCHANGED <<filters, token_data>>
    /\ UNCHANGED notSfVars

InitSafety ==
    /\ InitBotWith(DefaultConfig)
    /\ InitEngineWith("solana", TRUE, TRUE, TRUE)
    /\ \E cfg \in FilterConfigs, token \in Snapshots : InitSafetyWith(cfg, token)
    /\ InitTrainerWith(<<>>, AbsentPatterns)
    /\ InitAdvisorWith(TRUE, TRUE, LepDemoToken, <<>>)
    /\ InitMonitors
    /\ InitAlertsWith(DefaultAlertConfig, DefaultEnv)

NextSafety == AnalyzeToken

SpecSafety == InitSafety /\ [][NextSafety]_vars

----------------------------------------------------------------------------
(* ModelTrainer: operations *)

\* record_trade(trade_data): load the history, append the record, save the
\* capped history, analyze the uncapped list
RecordTrade ==
    /\ records < MaxRecords
    /\ \E trade_data \in TradeInputs, read_ok \in BOOLEAN,
          write \in WriteOutcomes, pwrite \in WriteOutcomes :
        LET loaded == LoadPerformanceHistory(performance_file, read_ok)
            history == Append(loaded, TradeRecord(trade_data, utcnow + 1))
        IN  /\ performance_file.state = "corrupt" => ~read_ok
            /\ performance_file.state = "absent" => read_ok
            /\ (Len(history) < MinTrades) => pwrite = "ok"
            /\ io_faults + Faults(read_ok, write, pwrite) <= MaxFaults
            /\ io_faults' = io_faults + Faults(read_ok, write, pwrite)
            /\ utcnow' = utcnow + 1
            /\ performance_file' =
                 SavePerformanceHistory(performance_file, history, write)
            /\ patterns_file' = AnalyzePatterns(patterns_file, history, pwrite)
            /\ last_record' = [ read_ok |-> read_ok, write |-> write,
                                pwrite |-> pwrite, loaded |-> Len(loaded),
                                analyzed |-> Len(history),
                                record |-> TradeRecord(trade_data, utcnow + 1) ]
    /\ records' = records + 1
    /\ last_thresholds' = NoThresholds
    /\ UNCHANGED notMtVars

\* get_recommended_thresholds(): load the patterns, answer from them or
\* from the configuration
GetRecommendedThresholds ==
    /\ \E read_ok \in BOOLEAN :
        /\ patterns_file.state = "corrupt" => ~read_ok
        /\ patterns_file.state = "absent" => read_ok
        /\ io_faults + (IF read_ok THEN 0 ELSE 1) <= MaxFaults
        /\ io_faults' = io_faults + (IF read_ok THEN 0 ELSE 1)
        /\ last_thresholds' =
             RecommendedThresholds(TrainerConfig,
                                   LoadPatterns(patterns_file, read_ok))
    /\ UNCHANGED <<performance_file, patterns_file, utcnow, records, last_record>>
    /\ UNCHANGED notMtVars

InitTrainer ==
    /\ InitBotWith(DefaultConfig)
    /\ InitEngineWith("solana", TRUE, TRUE, TRUE)
    /\ InitSafetyWith(DefaultFilters, DemoSnapshot)
    /\ \E history \in PriorHistories :
          \E patterns \in PriorPatterns(history) :
              InitTrainerWith(history, patterns)
    /\ InitAdvisorWith(TRUE, TRUE, LepDemoToken, <<>>)
    /\ InitMonitors
    /\ InitAlertsWith(DefaultAlertConfig, DefaultEnv)

NextTrainer ==
    \/ RecordTrade
    \/ GetRecommendedThresholds

SpecTrainer == InitTrainer /\ [][NextTrainer]_vars

----------------------------------------------------------------------------
(* LEPPredictor and CascadeSentinel: operations *)

\* predict_pump_timing(token_data, historical_data)
PredictPumpTiming ==
    /\ lep_pc = "idle"
    /\ lep_result' = PredictPumpTimingResult(lep_enabled, snapshot, historical_data)
    /\ lep_pc' = "done"
    /\ UNCHANGED <<lep_enabled, cascade_enabled, snapshot, historical_data,
                   cascade_result, cascade_pc>>
    /\ UNCHANGED notAdvVars

\* predict_virality(token_data, social_data)
PredictVirality ==
    /\ cascade_pc = "idle"
    /\ \E has_social_data \in BOOLEAN :
          cascade_result' =
              PredictViralityResult(cascade_enabled, snapshot, has_social_data)
    /\ cascade_pc' = "done"
    /\ UNCHANGED <<lep_enabled, cascade_enabled, snapshot, historical_data,
                   lep_result, lep_pc>>
    /\ UNCHANGED notAdvVars

InitAdvisor ==
    /\ InitBotWith(DefaultConfig)
    /\ InitEngineWith("solana", TRUE, TRUE, TRUE)
    /\ InitSafetyWith(DefaultFilters, DemoSnapshot)
    /\ InitTrainerWith(<<>>, AbsentPatterns)
    /\ \E lep \in BOOLEAN, cascade \in BOOLEAN,
          token \in AdvisorSnapshots, history \in HistoricalData :
          InitAdvisorWith(lep, cascade, token, history)
    /\ InitMonitors
    /\ InitAlertsWith(DefaultAlertConfig, DefaultEnv)

NextAdvisor ==
    \/ PredictPumpTiming
    \/ PredictVirality

SpecAdvisor == InitAdvisor /\ [][NextAdvisor]_vars

----------------------------------------------------------------------------
(* SolanaMonitor and BSCMonitor: operations *)

\* _check_raydium_pools(): one poll of the Raydium program's signatures
CheckRaydiumPools ==
    /\ sol_polls < MaxPolls
    /\ \E response \in SignatureResponses :
        \E outcome \in [Range(response) -> SignatureOutcomes] :
          LET after == ProcessSignatures(response, seen_tokens, sol_detected, outcome)
          IN  /\ seen_tokens' = after.seen
              /\ sol_detected' = after.detected
              /\ sol_overlap' = Range(response) \cap seen_tokens
    /\ sol_polls' = sol_polls + 1
    /\ UNCHANGED <<seen_pairs, last_block, bsc_detected, last_scan, scanned>>
    /\ UNCHANGED notDmVars

\* one pass of the loop of _monitor_blocks whose read of the block number
\* raises: the handler logs and sleeps
MonitorBlocksError ==
    /\ last_scan' = [kind |-> "error", from_block |-> 0, to_block |-> 0]
    /\ UNCHANGED <<seen_tokens, sol_detected, sol_polls, sol_overlap, seen_pairs,
                   last_block, bsc_detected, scanned>>
    /\ UNCHANGED notDmVars

\* one pass of the loop of _monitor_blocks: read the block number and, if
\* it is beyond last_block, scan the blocks in between with
\* _check_new_pairs, whose own handler swallows a failing filter
MonitorBlocks ==
    /\ \E current_block \in 0..MaxBlock, filter_ok \in BOOLEAN :
        \E outcome \in [Range(EventsIn(FromBlock(last_block), current_block))
                           -> PairOutcomes] :
          IF current_block > last_block
          THEN LET from_block == FromBlock(last_block)
                   events == IF filter_ok
                             THEN EventsIn(from_block, current_block)
                             ELSE <<>>
                   after == ProcessEvents(events, seen_pairs, bsc_detected, outcome)
               IN  /\ seen_pairs' = after.seen
                   /\ bsc_detected' = after.detected
                   /\ last_block' = current_block
                   /\ last_scan' = [kind |-> IF filter_ok THEN "scan" ELSE "failed",
                                    from_block |-> from_block,
                                    to_block |-> current_block]
                   /\ scanned' = [b \in DOMAIN scanned |->
                                    IF from_block <= b /\ b <= current_block
                                    THEN scanned[b] + 1 ELSE scanned[b]]
          ELSE /\ UNCHANGED <<seen_pairs, bsc_detected, last_block, scanned>>
               /\ last_scan' = [kind |-> "idle", from_block |-> 0, to_block |-> 0]
    /\ UNCHANGED <<seen_tokens, sol_detected, sol_polls, sol_overlap>>
    /\ UNCHANGED notDmVars

InitMonitor ==
    /\ InitBotWith(DefaultConfig)
    /\ InitEngineWith("solana", TRUE, TRUE, TRUE)
    /\ InitSafetyWith(DefaultFilters, DemoSnapshot)
    /\ InitTrainerWith(<<>>, AbsentPatterns)
    /\ InitAdvisorWith(TRUE, TRUE, LepDemoToken, <<>>)
    /\ InitMonitors
    /\ InitAlertsWith(DefaultAlertConfig, DefaultEnv)

NextMonitor ==
    \/ CheckRaydiumPools
    \/ MonitorBlocks
    \/ MonitorBlocksError

SpecMonitor == InitMonitor /\ [][NextMonitor]_vars

\* the loop of _monitor_blocks keeps polling while the monitor runs
FairSpecMonitor == SpecMonitor /\ WF_vars(MonitorBlocks)

----------------------------------------------------------------------------
(* TelegramAlerts: operations *)

\* one call of an alert operation: the payload may make the message
\* building raise, the delivery may fail
AlertCall(op) ==
    /\ alerts < MaxAlerts
    /\ \E payload_ok \in BOOLEAN, delivery \in DeliveryOutcomes :
        LET did == SendAlert(tg_enabled, tg_config, op, payload_ok, delivery)
        IN  /\ requests' = requests + did.posts
            /\ last_alert' = [ op |-> op, payload_ok |-> payload_ok,
                               delivery |-> delivery, raised |-> did.raised,
                               posts |-> did.posts, delivered |-> did.delivered ]
    /\ alerts' = alerts + 1
    /\ UNCHANGED <<tg_config, tg_env, tg_enabled>>
    /\ UNCHANGED notTgVars

SendTokenDetectedAlert == AlertCall("send_token_detected_alert")
SendBuyAlert == AlertCall("send_buy_alert")
SendSellAlert == AlertCall("send_sell_alert")
SendRugAlert == AlertCall("send_rug_alert")
SendErrorAlert == AlertCall("send_error_alert")
SendSessionSummary == AlertCall("send_session_summary")

InitAlerts ==
    /\ InitBotWith(DefaultConfig)
    /\ InitEngineWith("solana", TRUE, TRUE, TRUE)
    /\ InitSafetyWith(DefaultFilters, DemoSnapshot)
    /\ InitTrainerWith(<<>>, AbsentPatterns)
    /\ InitAdvisorWith(TRUE, TRUE, LepDemoToken, <<>>)
    /\ InitMonitors
    /\ \E cfg \in AlertConfigs, env \in Environments : InitAlertsWith(cfg, env)

NextAlerts ==
    \/ SendTokenDetectedAlert
    \/ SendBuyAlert
    \/ SendSellAlert
    \/ SendRugAlert
    \/ SendErrorAlert
    \/ SendSessionSummary

SpecAlerts == InitAlerts /\ [][NextAlerts]_vars

----------------------------------------------------------------------------
Next ==
    \/ SignalHandler
    \/ Start
    \/ DetectLoopCheck
    \/ DetectWake
    \/ DetectError
    \/ DetectErrWake
    \/ Shutdown
    \/ \E i \in DOMAIN mon : MonitorStart(i)
    \/ \E i \in DOMAIN mon : MonitorPoll(i)
    \/ \E i \in DOMAIN mon : MonitorError(i)
    \/ \E i \in DOMAIN mon : MonitorBackoffWake(i)

Spec == Init /\ [][Next]_vars

\* the event loop runs every ready task and fires every due timer
FairSpec == Spec /\ WF_vars(Next)

----------------------------------------------------------------------------
(* Properties of the paper trading controller *)

OpenPositions == Len(positions) - Len(trades_history)

\* C1: at most one position is open at a time; a position is opened only from
\* an empty slot with paper_balance >= the investment amount, and a detection
\* that opens nothing leaves the slot and the balance unchanged.
C1_AtMostOnePosition ==
    /\ [](OpenPositions \in {0, 1})
    /\ [](current_position = None <=> OpenPositions = 0)
    /\ [][ /\ Len(positions') # Len(positions) =>
                /\ Len(positions') = Len(positions) + 1
                /\ current_position = None
                /\ paper_balance >= InvestmentAmount
                /\ current_position' = Len(positions')
                /\ paper_balance' = paper_balance - InvestmentAmount
           /\ (detections' # detections /\ Len(positions') = Len(positions)) =>
                /\ current_position' = current_position
                /\ paper_balance' = paper_balance ]_vars

\* a second position is open after the first was closed, and one detection
\* was skipped
C1_Witness ==
    /\ current_position = 2
    /\ Len(trades_history) = 1
    /\ detections = 3

PollTakeProfit == last_poll.pnl >= config.take_profit
PollStopLoss == last_poll.pnl <= -config.stop_loss
PollTrailing ==
    /\ config.trailing_stop
    /\ (last_poll.peak - last_poll.price) * 100
          >= config.trailing_distance * last_poll.peak

\* C2: at every poll the exit reason follows the precedence Take Profit, then
\* Stop Loss, then Trailing Stop, then none.
C2_ExitPrecedence ==
    last_poll.mon # 0 =>
        /\ PollTakeProfit => last_poll.exit = "Take Profit"
        /\ (~PollTakeProfit /\ PollStopLoss) => last_poll.exit = "Stop Loss"
        /\ (~PollTakeProfit /\ ~PollStopLoss /\ PollTrailing)
              => last_poll.exit = "Trailing Stop"
        /\ (~PollTakeProfit /\ ~PollStopLoss /\ ~PollTrailing)
              => last_poll.exit = "None"

\* a poll at which all three conditions qualify at once
C2_Witness ==
    /\ last_poll.mon # 0
    /\ PollTakeProfit /\ PollStopLoss /\ PollTrailing
    /\ last_poll.exit = "Take Profit"

\* C3: once running is False, no sell is invoked.
C3_NoSellAfterShutdown ==
    [][~running => trades_history' = trades_history]_vars

\* C4: once running is False, the detection loop processes no further token
\* and opens no new position.
C4_NoTokenAfterShutdown ==
    [][~running => (detections' = detections /\ positions' = positions)]_vars

MonitorTerminated(i) == mon[i].pc \in {"done", "cancelled", "crashed"}

\* C5: after running is set to False every monitor task starts at most one
\* more loop body, the error back-off included, and terminates.
C5_BoundedShutdownLatency ==
    /\ [](\A i \in DOMAIN mon : mon[i].after_stop <= 1)
    /\ (~running ~> (\A i \in DOMAIN mon : MonitorTerminated(i)))

\* a monitor that took the error back-off in its one loop body after the flag
C5_Witness ==
    /\ ~running
    /\ \E i \in DOMAIN mon : mon[i].after_stop = 1 /\ mon[i].pc = "backoff"

MaxOf(a, b) == IF a >= b THEN a ELSE b

\* C6: peak_price of a position never decreases, and after each poll it is at
\* least max(entry price, polled price).
C6_PeakMonotone ==
    /\ [][\A p \in DOMAIN positions :
             positions'[p].peak_price >= positions[p].peak_price]_vars
    /\ [](\A p \in DOMAIN positions :
             positions[p].peak_price >= positions[p].entry_price)
    /\ [](last_poll.mon # 0 =>
             LET p == mon[last_poll.mon].position
             IN  /\ last_poll.peak = positions[p].peak_price
                 /\ positions[p].peak_price
                        >= MaxOf(positions[p].entry_price, last_poll.price))

\* an open position whose price rose above the entry and was then polled lower
C6_Witness ==
    /\ current_position # None
    /\ last_poll.mon # 0
    /\ mon[last_poll.mon].position = current_position
    /\ last_poll.peak > EntryPrice
    /\ last_poll.price < EntryPrice

ClosedPositions == Len(positions) - (IF current_position = None THEN 0 ELSE 1)

\* a step in which monitor i polled and an exit condition matched
ExitMatched(i) ==
    /\ mon[i].pc = "sleep"
    /\ mon'[i].pc \in {"done", "backoff"}
    /\ last_poll'.mon = i
    /\ last_poll'.exit # "None"

\* C7: a matched exit sells, releases the slot and appends exactly one record;
\* wins + losses = len(trades_history) and every closed position has a record.
C7_SellReleasesAndRecords ==
    /\ [](wins + losses = Len(trades_history))
    /\ [](ClosedPositions = Len(trades_history))
    /\ [][(\E i \in DOMAIN mon : ExitMatched(i)) =>
             /\ current_position # None
             /\ current_position' = None
             /\ trades_history' = Append(trades_history,
                    [ token |-> positions[current_position].token,
                      pnl |-> last_poll'.pnl,
                      reason |-> last_poll'.exit ])]_vars
    /\ [][trades_history' # trades_history =>
             \E i \in DOMAIN mon : ExitMatched(i)]_vars

\* two positions closed, one with a win and one with a loss
C7_Witness ==
    /\ Len(trades_history) = 2
    /\ wins = 1 /\ losses = 1
    /\ current_position = None

\* C8: with trailing stop enabled, a poll whose drop from the peak reaches the
\* trailing distance while neither Take Profit nor Stop Loss qualifies exits
\* with reason Trailing Stop, also at a positive PnL; entry 1.0, peak 1.5,
\* price 1.2, distance 20 is such a poll.
C8_TrailingStopTriggers ==
    /\ (last_poll.mon # 0 /\ PollTrailing /\ ~PollTakeProfit /\ ~PollStopLoss) =>
          /\ last_poll.exit = "Trailing Stop"
          /\ trades_history # <<>>
          /\ trades_history[Len(trades_history)].reason = "Trailing Stop"
          /\ trades_history[Len(trades_history)].pnl = last_poll.pnl
          /\ current_position # mon[last_poll.mon].position
    /\ LET pnl == PnlPercent(120, 100)
       IN /\ pnl = 20
          /\ pnl < DefaultConfig.take_profit
          /\ pnl > -DefaultConfig.stop_loss
          /\ ExitReason(DefaultConfig, pnl, NewPeak(150, 120), 120)
                = "Trailing Stop"

\* a Trailing Stop exit at a positive PnL
C8_Witness ==
    /\ last_poll.mon # 0
    /\ last_poll.exit = "Trailing Stop"
    /\ last_poll.pnl > 0
    /\ config.trailing_distance > 0
    /\ trades_history # <<>>
    /\ trades_history[Len(trades_history)].reason = "Trailing Stop"

(* Writer roles of the controller's shared fields *)

\* a step of the detection loop (_monitor_solana and what it calls)
DetectionStep == DetectLoopCheck \/ DetectWake \/ DetectError \/ DetectErrWake

\* a step of a monitoring task (_monitor_position and what it calls)
MonitorStep ==
    \E i \in DOMAIN mon :
        MonitorStart(i) \/ MonitorPoll(i) \/ MonitorError(i) \/ MonitorBackoffWake(i)

PositionOpened == current_position' # None /\ current_position' # current_position
PositionClosed == current_position # None /\ current_position' = None
PeakWritten ==
    \E p \in DOMAIN positions : positions'[p].peak_price # positions[p].peak_price

\* C19: each shared field has one writer role: the balance and
\* position-open are written by the detection loop only, position-close and
\* the peak by the monitoring task only; the monitoring task never writes
\* the balance.
C19_SingleWriterRoles ==
    [][ /\ (paper_balance' # paper_balance) => (DetectionStep /\ ~MonitorStep)
        /\ PositionOpened => DetectionStep
        /\ PositionClosed => MonitorStep
        /\ PeakWritten => MonitorStep ]_vars

\* C19 (amended): the balance is debited by the detection loop only and
\* credited by the monitoring task only (the proceeds of the sell);
\* position-open is written by the detection loop only, position-close and
\* the peak by the monitoring task only.
C19_WriterRolesByDirection ==
    [][ /\ (paper_balance' < paper_balance) => DetectionStep
        /\ (paper_balance' > paper_balance) => MonitorStep
        /\ PositionOpened => DetectionStep
        /\ PositionClosed => MonitorStep
        /\ PeakWritten => MonitorStep ]_vars

\* two buys debited the balance, a sell credited it, and a peak was raised
C19_Witness ==
    /\ Len(positions) >= 2
    /\ Len(trades_history) >= 1
    /\ current_position # None
    /\ \E p \in DOMAIN positions : positions[p].peak_price > positions[p].entry_price
    /\ paper_balance > config.initial_balance - 2 * InvestmentAmount

\* a step that executes _simulate_sell
SellStep == trades_history' # trades_history

\* C32: under every interleaving of the detection loop and the monitoring
\* tasks, a sell is executed only while a position is open, no position is
\* sold twice (the k-th sell closes the k-th position), and the task that
\* sells is the one spawned for the position it sells.
C32_SellsOwnOpenPosition ==
    [][SellStep =>
        /\ current_position # None
        /\ current_position' = None
        /\ current_position = Len(trades_history) + 1
        /\ \E i \in DOMAIN mon :
              MonitorPoll(i) /\ mon[i].position = current_position]_vars

\* the second position was opened after the first was sold, and each was
\* sold by its own task
C32_Witness ==
    /\ Len(positions) = 2
    /\ Len(trades_history) = 2
    /\ Len(mon) = 2
    /\ mon[1].position = 1 /\ mon[1].pc = "done"
    /\ mon[2].position = 2 /\ mon[2].pc = "done"
    /\ last_poll.mon = 2
    /\ current_position = None

\* C33: a poll at which an exit condition qualifies sells and clears the
\* position within that poll and the task stops; a stopped task stays
\* stopped, and every poll is a poll of the position that is open, so that
\* no poll is evaluated for a position after its sale.
C33_ExitWithinPoll ==
    /\ [][\A i \in DOMAIN mon :
            (MonitorPoll(i) /\ current_position # None /\ last_poll'.exit # "None") =>
                /\ current_position' = None
                /\ Len(trades_history') = Len(trades_history) + 1
                /\ trades_history'[Len(trades_history')].reason = last_poll'.exit
                /\ mon'[i].pc = "done"]_vars
    /\ [][\A i \in DOMAIN mon : mon[i].pc = "done" => mon'[i].pc = "done"]_vars
    /\ [][\A i \in DOMAIN mon :
            MonitorPoll(i) =>
                current_position # None /\ mon[i].position = current_position]_vars

\* a poll without exit, then a poll at which the trailing stop qualified
\* sold the position; the task is done
C33_Witness ==
    /\ Len(trades_history) = 1
    /\ current_position = None
    /\ last_poll.mon = 1
    /\ last_poll.exit = "Trailing Stop"
    /\ last_poll.peak > last_poll.price
    /\ trades_history[1].reason = "Trailing Stop"
    /\ mon[1].pc = "done"

\* amount * pnl / 100 of the closed trades, every amount being the
\* investment amount
ClosedPnl ==
    [k \in DOMAIN trades_history |->
        (InvestmentAmount * trades_history[k].pnl) \div 100]

\* C34: the paper balance is never negative; a buy subtracts the investment
\* amount and happens only with balance >= amount; a sell adds
\* amount * (1 + pnl / 100) with pnl >= -100; while no position is open the
\* balance is the initial balance plus the sum of amount * pnl / 100 over
\* the closed trades.
C34_BalanceAccounting ==
    /\ [](paper_balance >= 0)
    /\ [](current_position = None =>
            paper_balance = config.initial_balance + SumSeq(ClosedPnl))
    /\ [][PositionOpened =>
            /\ paper_balance >= InvestmentAmount
            /\ paper_balance' = paper_balance - InvestmentAmount]_vars
    /\ [][SellStep =>
            \A pnl \in {trades_history'[Len(trades_history')].pnl} :
                /\ pnl >= -100
                /\ paper_balance' =
                     paper_balance + (InvestmentAmount * (100 + pnl)) \div 100]_vars

\* a balance of exactly one investment went to 0 with the first buy and
\* came back with a gain of 10%, then a loss of 5%
C34_Witness ==
    /\ config.initial_balance = InvestmentAmount
    /\ current_position = None
    /\ Len(trades_history) = 2
    /\ trades_history[1].pnl = 10
    /\ trades_history[2].pnl = -5
    /\ paper_balance = InvestmentAmount + 5

----------------------------------------------------------------------------
(* Properties of the execution gateway *)

\* C9: with MEV protection enabled the tip index has advanced once per
\* gateway call, buys and sells alike.
C9_IndexAdvancesOnEveryCall ==
    use_jito => jito_tip_account_index = calls % PoolSize

TimesChosen(k) ==
    Cardinality({i \in DOMAIN tip_log : tip_log[i] = JITO_TIP_ACCOUNTS[k]})

\* C10: the tip index stays in 0..K-1, the i-th selection (from 0) is pool
\* entry i mod K, and after N selections every entry was chosen floor(N/K) or
\* ceil(N/K) times.
C10_StrictCyclicOrder ==
    LET N == Len(tip_log)
        K == PoolSize
    IN  /\ jito_tip_account_index \in 0..(K - 1)
        /\ jito_tip_account_index = N % K
        /\ \A i \in 1..N : tip_log[i] = JITO_TIP_ACCOUNTS[((i - 1) % K) + 1]
        /\ \A k \in 1..K : TimesChosen(k) \in {N \div K, (N + K - 1) \div K}

\* the rotation has wrapped around the pool
C10_Witness ==
    /\ Len(tip_log) > PoolSize
    /\ jito_tip_account_index = 1

\* C11: every completed buy_token / sell_token call hands its caller a
\* structured result (a dict carrying a success flag), never an absent
\* value, also when the network is unsupported, the wallet is not loaded,
\* the chain libraries are missing or an internal error occurred.
C11_StructuredResultOnFailure ==
    last_call.op # "none" => last_call.result # "None"

----------------------------------------------------------------------------
(* Properties of the safety filter *)

Analyzed == sf_pc = "done"

\* round(n / d) as Python rounds: to the nearest integer, ties to even
RoundHalfEven(n, d) ==
    LET q == n \div d
        r == n % d
    IN  IF 2 * r < d THEN q
        ELSE IF 2 * r > d THEN q + 1
        ELSE IF q % 2 = 0 THEN q ELSE q + 1

\* C12: every report has total_checks = 5, score = round(passed_checks /
\* total_checks * 100) and safe = (score >= safety threshold), whatever
\* combination of layers passed.
C12_ScoreAndVerdict ==
    Analyzed =>
        /\ report.total_checks = 5
        /\ report.passed_checks =
             Cardinality({name \in DOMAIN report.details :
                            report.details[name].passed})
        /\ report.score =
             RoundHalfEven(report.passed_checks * 100, report.total_checks)
        /\ report.safe = (report.score >= filters.min_safety_score)

\* three of five layers passed, the first and the last failed, and the
\* token is safe at a threshold of 60
C12_Witness ==
    /\ Analyzed
    /\ report.passed_checks = 3
    /\ ~report.details["rugcheck"].passed
    /\ ~report.details["contract"].passed
    /\ report.score = 60
    /\ report.safe

\* the risk-score service was asked and did not answer with status 200
RugcheckUnavailable ==
    /\ token_data.source \in {"solana", "raydium"}
    /\ token_data.rugcheck.status \in {"timeout", "non200", "error"}

\* C13: layer 1 is fail-open: when the external call times out, answers
\* with a non-200 status or raises, the sub-result is passed with the
\* neutral fallback score, for every configured minimum risk score.
C13_RugcheckFailOpen ==
    (Analyzed /\ RugcheckUnavailable) =>
        /\ report.details["rugcheck"].passed
        /\ report.details["rugcheck"].score = 7

\* C14: layer 3 passes iff holders >= minHolders and topHolderPct <=
\* maxTopHolderPct for every snapshot value including 0, and names both
\* violations when both conditions are violated.
C14_HolderRule ==
    (Analyzed /\ token_data.ill_typed # "holders"
              /\ token_data.has_holders /\ token_data.has_top_holder_percent) =>
        LET few == token_data.holders < filters.min_holders
            concentrated ==
                token_data.top_holder_percent > filters.max_top_holder_pct
        IN  /\ report.details["holders"].passed = (~few /\ ~concentrated)
            /\ (few /\ concentrated) =>
                 report.details["holders"].reason =
                    "Too few holders; High concentration"

\* C15: layer 4 passes iff the age is at most maxAgeMinutes for every
\* well-formed timestamp (a datetime or an ISO string, with or without a
\* 'Z' or offset suffix); a missing or malformed timestamp passes.
C15_AgeRule ==
    Analyzed =>
        IF token_data.ts_kind \in {"missing", "malformed"}
        THEN report.details["age"].passed
        ELSE report.details["age"].passed =
                (token_data.age_seconds <= filters.max_age_minutes * 60)

\* C16: layer 2 passes iff liquidity_usd >= minLiquidity, liquidity_usd
\* being the snapshot's USD figure when present, otherwise the native
\* figure times the conversion rate, and 0 when the snapshot has neither.
C16_LiquidityFloor ==
    (Analyzed /\ token_data.ill_typed # "liquidity") =>
        LET usd == IF token_data.has_liquidity_usd THEN token_data.liquidity_usd
                   ELSE IF token_data.has_liquidity
                        THEN token_data.liquidity * SolPriceUsd
                        ELSE 0
        IN  /\ report.details["liquidity"].amount = usd
            /\ report.details["liquidity"].passed = (usd >= filters.min_liquidity)

\* a snapshot with the native figure only passes on the converted amount
C16_Witness ==
    /\ Analyzed
    /\ ~token_data.has_liquidity_usd
    /\ token_data.has_liquidity
    /\ token_data.liquidity < filters.min_liquidity
    /\ report.details["liquidity"].passed

\* C17: layer 5 fails only when honeypot checking is enabled, the venue is
\* bsc/pancakeswap and the detector answered with status 200 and
\* isHoneypot = true; in every other case it passes.
C17_ContractFailsOnlyOnHoneypot ==
    Analyzed =>
        report.details["contract"].passed =
            ~( /\ filters.check_honeypot
               /\ token_data.source \in {"bsc", "pancakeswap"}
               /\ token_data.honeypot.status = "200"
               /\ token_data.honeypot.isHoneypot )

\* the detector timed out on a pancakeswap token with checking enabled
C17_Witness ==
    /\ Analyzed
    /\ filters.check_honeypot
    /\ token_data.source = "pancakeswap"
    /\ token_data.honeypot.status = "timeout"
    /\ report.details["contract"].passed

\* C18: no failure inside a layer leaves analyze_token: the report's
\* details hold a sub-result with a passed flag for each of the five layers.
C18_NoLayerFailureEscapes ==
    Analyzed =>
        /\ "details" \in DOMAIN report
        /\ DOMAIN report.details =
             {"rugcheck", "liquidity", "holders", "age", "contract"}
        /\ \A name \in DOMAIN report.details :
             /\ "passed" \in DOMAIN report.details[name]
             /\ report.details[name].passed \in BOOLEAN

\* a holder figure that is no number made the comparison of layer 3 raise
C18_Witness ==
    /\ Analyzed
    /\ token_data.ill_typed = "holders"
    /\ ~report.details["holders"].passed
    /\ report.passed_checks = 4

\* the positions, in layer order, of the layers that failed
FailedLayers ==
    {k \in DOMAIN LayerNames : ~report.details[LayerNames[k]].passed}

\* the k-th failed layer is the one with k - 1 failed layers before it
NthFailedLayer(n) ==
    CHOOSE k \in FailedLayers : Cardinality({j \in FailedLayers : j < k}) = n - 1

\* C40: in every report passed_checks is the number of the five layer
\* sub-results that passed, it lies in 0..5, and the reasons list has one
\* entry per failed layer, 5 - passed_checks in all, in layer order.
C40_ReasonsPerFailedLayer ==
    Analyzed =>
        /\ report.passed_checks = 5 - Cardinality(FailedLayers)
        /\ report.passed_checks \in 0..5
        /\ Len(report.reasons) = 5 - report.passed_checks
        /\ \A n \in DOMAIN report.reasons :
             report.reasons[n] = report.details[LayerNames[NthFailedLayer(n)]].reason

\* the second, third and fifth layer failed, each with its own reason
C40_Witness ==
    /\ Analyzed
    /\ report.passed_checks = 2
    /\ FailedLayers = {2, 3, 5}
    /\ Len(report.reasons) = 3
    /\ report.reasons[1] = report.details["liquidity"].reason
    /\ report.reasons[3] = report.details["contract"].reason
    /\ report.reasons[1] # report.reasons[3]

----------------------------------------------------------------------------
(* Properties of the outcome learner *)

\* the persisted records are the latest arrivals, in arrival order
MostRecentInOrder ==
    LET history == performance_file.history
    IN  \A k \in DOMAIN history :
            history[k].timestamp = utcnow - Len(history) + k

\* a record_trade call that read a full history and wrote its successor
CapExceeded ==
    /\ records' # records
    /\ last_record'.read_ok
    /\ last_record'.write = "ok"
    /\ performance_file.state = "ok"
    /\ Len(performance_file.history) = 1000

\* C20: the persisted history never holds more than 1000 records; a
\* record_trade that exceeds the cap evicts the oldest record and keeps the
\* others in order, so that without file failures the persisted history is
\* the most recent 1000 records in arrival order.
C20_CapAndEviction ==
    /\ [](performance_file.state = "ok" =>
            /\ Len(performance_file.history) <= 1000
            /\ (io_faults = 0 => MostRecentInOrder))
    /\ [][CapExceeded =>
            /\ Len(performance_file'.history) = 1000
            /\ SubSeq(performance_file'.history, 1, 999)
                 = Tail(performance_file.history)
            /\ performance_file'.history[1000].timestamp = utcnow']_vars

\* two records were evicted from a full history
C20_Witness ==
    /\ performance_file.state = "ok"
    /\ Len(performance_file.history) = 1000
    /\ performance_file.history[1].timestamp = 3
    /\ last_record.loaded = 1000
    /\ last_record.analyzed = 1001

\* the list record_trade handed to _analyze_patterns in this step
Analyzed1 ==
    Append(LoadPerformanceHistory(performance_file, last_record'.read_ok),
           last_record'.record)

HasWin(history) == \E i \in DOMAIN history : history[i].win

\* a record_trade step whose patterns write, if any, succeeds
RecordStep == records' # records /\ last_record'.pwrite = "ok"

\* C21: record_trade leaves the patterns unchanged while the history holds
\* fewer than 10 records and recomputes them on every call once it holds 10
\* or more, whatever the mix of winning and losing trades.
C21_RecomputeFromTen ==
    [][RecordStep =>
        IF Len(Analyzed1) < 10
        THEN patterns_file' = patterns_file
        ELSE /\ patterns_file'.state = "ok"
             /\ patterns_file'.patterns.total_trades = Len(Analyzed1)]_vars

\* C21 (amended): record_trade leaves the patterns file untouched while the
\* history with the new record holds fewer than 10 records or no winning
\* trade, and otherwise replaces it by the patterns of that history.
C21_RecomputeFromTenWithAWin ==
    [][RecordStep =>
        IF Len(Analyzed1) < 10 \/ ~HasWin(Analyzed1)
        THEN patterns_file' = patterns_file
        ELSE /\ patterns_file'.state = "ok"
             /\ patterns_file'.patterns.total_trades = Len(Analyzed1)
             /\ patterns_file'.patterns.wins =
                  Cardinality({i \in DOMAIN Analyzed1 : Analyzed1[i].win})]_vars

\* the tenth record arrived and the patterns were computed from ten trades,
\* the only winning one being the new record
C21_Witness ==
    /\ last_record.analyzed = 10
    /\ last_record.record.win
    /\ patterns_file.state = "ok"
    /\ patterns_file.patterns.total_trades = 10
    /\ patterns_file.patterns.wins = 1

\* twice the median of history[i][field] over the indices in S, 0 for an
\* empty S: the sum of the two middle order statistics
MedianTwice(history, S, field) ==
    LET n == Cardinality(S)
        below(v) == Cardinality({i \in S : history[i][field] < v})
        upTo(v) == Cardinality({i \in S : history[i][field] <= v})
        orderStat(k) ==
            CHOOSE v \in {history[i][field] : i \in S} : below(v) < k /\ k <= upTo(v)
    IN  IF n = 0 THEN 0
        ELSE orderStat((n + 1) \div 2) + orderStat((n + 2) \div 2)

Winners(history) == {i \in DOMAIN history : history[i].win}

\* a record_trade step that recomputed and wrote the patterns
Recomputed == RecordStep /\ Len(Analyzed1) >= 10 /\ HasWin(Analyzed1)

\* the three learned thresholds of a patterns snapshot
Thresholds(patterns) ==
    <<patterns.optimal_safety_score, patterns.optimal_lep_confidence,
      patterns.optimal_virality_score>>

ThresholdFields == <<"safety_score", "lep_confidence", "virality_score">>

PositiveWinners(history, field) ==
    {i \in Winners(history) : history[i][field] > 0}

IsConfigDefaults(thresholds) ==
    /\ thresholds.safety_score = 2 * TrainerConfig.safety_threshold
    /\ thresholds.lep_confidence = 2 * TrainerConfig.lep_min_confidence
    /\ thresholds.virality_score = 2 * TrainerConfig.cascade_min_virality

IsLearnedFrom(thresholds, patterns) ==
    /\ thresholds.source = "ai_learned"
    /\ thresholds.safety_score = patterns.optimal_safety_score
    /\ thresholds.lep_confidence = patterns.optimal_lep_confidence
    /\ thresholds.virality_score = patterns.optimal_virality_score

\* the read of the patterns file failed during this call
PatternsReadFailed == io_faults' # io_faults

\* the call left both persisted files as they were
PersistedUnchanged == UNCHANGED <<performance_file, patterns_file>>

\* the answer when nothing went wrong inside the call
AnswerFromPatterns ==
    IF patterns_file.state = "absent" \/ patterns_file.patterns.total_trades < 10
    THEN /\ last_thresholds'.source = "config_defaults"
         /\ IsConfigDefaults(last_thresholds')
    ELSE IsLearnedFrom(last_thresholds', patterns_file.patterns)

\* C23: get_recommended_thresholds always returns: the configuration
\* defaults when there are no patterns or they rest on fewer than 10 trades,
\* the learned values otherwise, and the configuration defaults with the
\* fallback source on any internal error (a failed read of the patterns file
\* included); the persisted files are unchanged.
C23_FallbackOnAnyError ==
    [][GetRecommendedThresholds =>
        /\ PersistedUnchanged
        /\ IF PatternsReadFailed \/ patterns_file.state = "not_dict"
           THEN /\ last_thresholds'.source = "error_fallback"
                /\ IsConfigDefaults(last_thresholds')
           ELSE AnswerFromPatterns]_vars

\* C23 (amended): as above, but a failed read of the patterns file is
\* answered like missing patterns, with the defaults source; the fallback
\* source is given only when the loaded document cannot be queried.
C23_FallbackOnUnusableDocument ==
    [][GetRecommendedThresholds =>
        /\ PersistedUnchanged
        /\ IF PatternsReadFailed
           THEN /\ last_thresholds'.source = "config_defaults"
                /\ IsConfigDefaults(last_thresholds')
           ELSE IF patterns_file.state = "not_dict"
           THEN /\ last_thresholds'.source = "error_fallback"
                /\ IsConfigDefaults(last_thresholds')
           ELSE AnswerFromPatterns]_vars

\* a call on learned patterns whose file could not be read was answered
\* with the configuration defaults
C23_Witness ==
    /\ records = 0
    /\ io_faults = 1
    /\ patterns_file.state = "ok"
    /\ patterns_file.patterns.total_trades >= 10
    /\ last_thresholds.source = "config_defaults"

\* a call that read a patterns snapshot the learner wrote
ReadsLearnerSnapshot ==
    GetRecommendedThresholds /\ patterns_file.state = "ok" /\ ~PatternsReadFailed

\* C38: every patterns snapshot the learner wrote has total_trades >= 10,
\* wins >= 1, wins + losses = total_trades and win_rate = wins /
\* total_trades; get_recommended_thresholds, when it reads such a
\* snapshot, answers with the learned source.
C38_SnapshotsAreLearnable ==
    /\ [](patterns_file.state = "ok" =>
            \A patterns \in {patterns_file.patterns} :
                /\ patterns.total_trades >= 10
                /\ patterns.wins >= 1
                /\ patterns.wins + patterns.losses = patterns.total_trades
                /\ patterns.win_rate.num * patterns.total_trades
                     = patterns.wins * patterns.win_rate.den)
    /\ [][ReadsLearnerSnapshot =>
            /\ last_thresholds'.source = "ai_learned"
            /\ last_thresholds'.based_on_trades
                 = patterns_file.patterns.total_trades]_vars

\* a snapshot of ten trades with one win and nine losses was written and
\* then answered as learned
C38_Witness ==
    /\ patterns_file.state = "ok"
    /\ patterns_file.patterns.total_trades = 10
    /\ patterns_file.patterns.wins = 1
    /\ patterns_file.patterns.losses = 9
    /\ last_record.analyzed = 10
    /\ last_thresholds.source = "ai_learned"
    /\ last_thresholds.based_on_trades = 10

\* a record_trade step that saved the history and then recomputed and wrote
\* the patterns
SavedAndRecomputed == Recomputed /\ last_record'.write = "ok"

\* C37: after every record_trade that recomputes the patterns,
\* patterns.total_trades is the length of the persisted history and so
\* never exceeds 1000.
C37_PatternsFromPersistedHistory ==
    [][SavedAndRecomputed =>
        /\ patterns_file'.patterns.total_trades = Len(performance_file'.history)
        /\ patterns_file'.patterns.total_trades <= 1000]_vars

\* C24: below the cap, after every record_trade the persisted history is
\* the previously persisted history followed by the new record, also when
\* reading or writing the history file fails during the call.
C24_AppendOnlyBelowCap ==
    [][(records' # records /\ performance_file.state = "ok"
                           /\ Len(performance_file.history) < HistoryCap) =>
        /\ performance_file'.state = "ok"
        /\ performance_file'.history =
             Append(performance_file.history, last_record'.record)]_vars

----------------------------------------------------------------------------
(* Properties of the predictive advisors *)

LepAnswered == lep_pc = "done"
CascadeAnswered == cascade_pc = "done"

\* C25: a disabled advisor answers with the zero result for every input and
\* computes no sub-signal: LEP confidence 0.0, predicted_hours 0 and empty
\* signals; Cascade virality_score 0, viral_probability 0.0 and empty
\* signals.
C25_DisabledShortCircuit ==
    /\ (LepAnswered /\ ~lep_enabled) =>
          /\ lep_result.confidence = 0
          /\ lep_result.predicted_hours = 0
          /\ DOMAIN lep_result.signals = {}
          /\ lep_result.computed = {}
    /\ (CascadeAnswered /\ ~cascade_enabled) =>
          /\ cascade_result.virality_score = 0
          /\ cascade_result.viral_probability = 0
          /\ DOMAIN cascade_result.cascade_signals = {}
          /\ cascade_result.computed = {}

\* both advisors, disabled, have answered for the snapshot of the example
C25_Witness ==
    /\ LepAnswered /\ ~lep_enabled
    /\ CascadeAnswered /\ ~cascade_enabled
    /\ snapshot = LepDemoToken
    /\ lep_result.recommendation = "LEP disabled"
    /\ cascade_result.recommendation = "Cascade disabled"

\* a sub-signal of this snapshot cannot be computed
SubSignalFails == snapshot.ill_typed # "none" \/ AgeRaises(snapshot)

\* C26: any internal failure, the failure of a single sub-signal
\* computation included, yields the minimal-confidence result (LEP
\* confidence 0.0, Cascade virality_score 0) and a recorded diagnostic.
C26_FailureYieldsMinimalResult ==
    /\ (LepAnswered /\ lep_enabled /\ SubSignalFails) =>
          /\ lep_result.confidence = 0
          /\ lep_result.log # <<>>
    /\ (CascadeAnswered /\ cascade_enabled /\ SubSignalFails) =>
          /\ cascade_result.virality_score = 0
          /\ cascade_result.log # <<>>

WeightSum(names, weights) == SumSeq([i \in DOMAIN names |-> weights[names[i]]])

\* C27: each weight table sums to 1.0; the LEP confidence lies in [0, 1],
\* the Cascade virality_score is an integer in 0..100 and viral_probability
\* is virality_score / 100.
C27_WeightsAndRanges ==
    /\ WeightSum(LepSignalNames, LepWeights) = 100
    /\ WeightSum(CascadeSignalNames, CascadeWeights) = 100
    /\ (LepAnswered /\ lep_enabled) =>
          lep_result.confidence \in 0..1000
    /\ (CascadeAnswered /\ cascade_enabled) =>
          /\ cascade_result.virality_score \in 0..100
          /\ cascade_result.viral_probability * 100
                = cascade_result.virality_score * 1000

\* both advisors have scored a snapshot whose Cascade sum is 0.39 in exact
\* arithmetic
C27_Witness ==
    /\ LepAnswered /\ lep_enabled /\ lep_result.confidence > 0
    /\ CascadeAnswered /\ cascade_enabled
    /\ cascade_result.virality_score = 38
    /\ cascade_result.viral_probability = 380

\* C28: predicted_hours is 24 when the confidence is below 0.5; otherwise 6
\* in the sweet spot, otherwise 8 for a velocity above 2000, otherwise 12.
C28_HoursPrecedence ==
    (LepAnswered /\ lep_enabled) =>
        LET signals == lep_result.signals
        IN  /\ lep_result.predicted_hours \in {6, 8, 12, 24}
            /\ lep_result.predicted_hours =
                 IF lep_result.confidence < 500 THEN 24
                 ELSE IF signals.age_timing.in_sweet_spot THEN 6
                 ELSE IF signals.liquidity_velocity.velocity > 2000 THEN 8
                 ELSE 12

\* a snapshot in the sweet spot with a velocity above 2000 whose confidence
\* is below 0.5
C28_Witness ==
    /\ LepAnswered /\ lep_enabled
    /\ lep_result.signals.age_timing.in_sweet_spot
    /\ lep_result.signals.liquidity_velocity.velocity > 2000
    /\ lep_result.confidence < 500
    /\ lep_result.predicted_hours = 24

\* the snapshot of the scenario: a readable naive timestamp 2 to 5 minutes
\* old, liquidity in the optimal band and above the volume threshold,
\* holders in 50..200, top holder in 30..60 percent, no history
InScenario ==
    /\ snapshot.ill_typed = "none"
    /\ snapshot.ts_kind \in {"datetime", "iso"}
    /\ 120 <= snapshot.age_seconds /\ snapshot.age_seconds <= 300
    /\ 10000 < snapshot.liquidity_usd /\ snapshot.liquidity_usd <= 50000
    /\ 50 <= snapshot.holders /\ snapshot.holders <= 200
    /\ 30 <= snapshot.top_holder_percent /\ snapshot.top_holder_percent <= 60
    /\ historical_data = <<>>

\* C29: in the scenario LEP yields the sub-scores 0.5 / 1.0 / 1.0 / 0.8 /
\* 0.5, confidence 0.77, predicted_hours 6 and the moderate-confidence BUY
\* tier.
C29_DemoScenario ==
    (LepAnswered /\ lep_enabled /\ InScenario) =>
        /\ [i \in 1..5 |-> lep_result.signals[LepSignalNames[i]].score]
             = <<5, 10, 10, 8, 5>>
        /\ lep_result.confidence = 770
        /\ lep_result.predicted_hours = 6
        /\ lep_result.recommendation = "BUY"

C29_Witness ==
    /\ LepAnswered /\ lep_enabled
    /\ snapshot = LepDemoToken
    /\ historical_data = <<>>
    /\ lep_result.confidence = 770
    /\ lep_result.recommendation = "BUY"

----------------------------------------------------------------------------
(* Properties of the detection monitors *)

\* C30: the token-detected callback is invoked at most once per transaction
\* signature (Solana) and at most once per pair address (BSC), whatever the
\* polls return, and the seen-sets only ever grow.
C30_DetectedOncePerIdentifier ==
    /\ [](/\ \A s \in Signatures : sol_detected[s] <= 1
          /\ \A p \in PairAddresses : bsc_detected[p] <= 1)
    /\ [][/\ seen_tokens \subseteq seen_tokens'
          /\ seen_pairs \subseteq seen_pairs']_vars

\* a second Solana poll returned a signature already delivered, and the
\* BSC scan of block 2 met the event of pair1 again
C30_Witness ==
    /\ sol_polls = 2
    /\ "sig1" \in sol_overlap
    /\ sol_detected["sig1"] = 1
    /\ last_block = 2
    /\ last_scan = [kind |-> "scan", from_block |-> 2, to_block |-> 2]
    /\ bsc_detected["pair1"] = 1
    /\ "pair2" \in seen_pairs

\* a pass of the loop that handed a range to _check_new_pairs
ScanStep == last_scan' # last_scan /\ last_scan'.kind \in {"scan", "failed"}

\* C35: last_block never decreases, and the ranges handed to
\* _check_new_pairs are contiguous and disjoint: each starts right after the
\* previous last_block and ends at the new one, so that every block after
\* the starting block and up to last_block lies in exactly one of them.
C35_RangesPartitionBlocks ==
    /\ [](\A b \in DOMAIN scanned :
             scanned[b] = IF b <= last_block THEN 1 ELSE 0)
    /\ [][last_block' >= last_block]_vars
    /\ [][ScanStep =>
            /\ last_scan'.from_block = last_block + 1
            /\ last_scan'.to_block = last_block'
            /\ last_scan'.from_block <= last_scan'.to_block]_vars

\* after the ranges [1, 1] and [2, 3], the latter spanning two blocks
C35_Witness ==
    /\ last_block = 3
    /\ last_scan = [kind |-> "scan", from_block |-> 2, to_block |-> 3]
    /\ \A b \in 1..3 : scanned[b] = 1

\* the PairCreated event of the pair lies in a block up to last_block
Emitted(pair_address) ==
    \E b \in 1..last_block : pair_address \in Range(PairCreatedEvents(b))

\* C36: while the monitor keeps running, every pair whose creation event
\* lies in a block the monitor has passed is eventually delivered to the
\* token-detected callback, also when the scan of its range or the fetch
\* of its token data failed.
C36_EveryPairEventuallyDelivered ==
    \A p \in PairAddresses : Emitted(p) ~> (bsc_detected[p] >= 1)

----------------------------------------------------------------------------
(* Properties of the alert operations *)

\* the environment lacks a credential: unset or blank
CredentialsMissing ==
    \E name \in DOMAIN tg_env : tg_env[name] \in {"", " "}

\* C31: every alert operation returns to its caller without raising,
\* whatever the payload and whether the delivery times out, is answered
\* with another status than 200 or raises; with alerts disabled or a
\* credential missing no request is made.
C31_FireAndForget ==
    /\ [](last_alert.raised = "none")
    /\ [][(alerts' # alerts /\ (~tg_config.telegram_enabled \/ CredentialsMissing))
            => requests' = requests]_vars

\* a sell alert ran into the timeout after an alert that was posted, and
\* returned
C31_Witness ==
    /\ tg_enabled
    /\ alerts = 2
    /\ requests = 2
    /\ last_alert.op = "send_sell_alert"
    /\ last_alert.delivery = "timeout"
    /\ last_alert.payload_ok
    /\ last_alert.raised = "none"
    /\ last_alert.delivered = 0

----------------------------------------------------------------------------
(* Reachability of the Cascade tiers *)

CascadeTiers ==
    {"VIRAL ALERT", "STRONG VIRAL", "MODERATE VIRAL", "LOW VIRAL", "NO VIRAL"}

\* the tiers the sentinel, as configured, answers with over all snapshots
TiersProduced ==
    { PredictViralityResult(cascade_enabled, token, has_social_data).recommendation :
        token \in AdvisorSnapshots, has_social_data \in BOOLEAN }

\* C39: each of the five recommendation tiers (>= 90, 75..89, 60..74,
\* 40..59, < 40) is produced by the sub-signal analyzers of the enabled
\* sentinel for some snapshot.
C39_EveryTierProduced == cascade_enabled => CascadeTiers \subseteq TiersProduced

====
